---- MODULE Spec2Model ----
(***************************************************************************)
(* Register allocation core of the vISA backend (src/visa/GraphColor.h,     *)
(* src/visa/SpillCode.h): live ranges, the interference matrix, one         *)
(* graph-coloring pass, spill-code insertion and the retry loop of          *)
(* GlobalRA::coloringRegAlloc.                                              *)
(*                                                                         *)
(* The headers define the data, the accessors and the interference matrix;  *)
(* the bodies of GraphColor::regAlloc, GraphColor::assignColors,            *)
(* SpillManager::insertSpillCode and GlobalRA::coloringRegAlloc are only    *)
(* declared there, and are modelled from the design text (sections 4.1,     *)
(* 4.4, 4.5, 5 and 7 of spec.md).                                           *)
(***************************************************************************)
EXTENDS Integers, Sequences, FiniteSets, TLC

(***************************************************************************)
(* Bounds of the model.                                                     *)
(***************************************************************************)
\* declared variables of the kernel before register allocation; the kernel's
\* basic block has one instruction per variable, defining it
NumVars == 3
\* largest number of physical GRFs of a kernel (kernel.getNumRegTotal())
MaxRegs == 3
\* largest configured maximum number of RA iterations (the retry cap)
MaxRAIterations == 4
\* registers at the top of the file an end-of-thread send source may use
EOTWindow == 2
\* the configured dense matrix limit: with this many live ranges or more the
\* interference matrix is sparse
DenseMatrixLimit == 4

(***************************************************************************)
(* Program constants.                                                       *)
(***************************************************************************)
BITS_DWORD == 32
\* BoundedRA::NOT_FOUND, the value numReservedGRFsFailSafe starts with
NOT_FOUND == 0 - 1

NoDcl == 0 - 1
NoReg == 0 - 1

\* forbiddenKind, GraphColor.h:93-103 (the GRF kinds used here)
FBD_EOT == "FBD_EOT"
FBD_LASTGRF == "FBD_LASTGRF"
FBD_EOTLASTGRF == "FBD_EOTLASTGRF"
FBD_NUM == "FBD_NUM"
forbiddenKind == {FBD_EOT, FBD_LASTGRF, FBD_EOTLASTGRF, FBD_NUM}

\* enum BankConflict, GraphColor.h:40-46 (the first-half hints)
BANK_CONFLICT_NONE == "BANK_CONFLICT_NONE"
BANK_CONFLICT_FIRST_HALF_EVEN == "BANK_CONFLICT_FIRST_HALF_EVEN"
BANK_CONFLICT_FIRST_HALF_ODD == "BANK_CONFLICT_FIRST_HALF_ODD"
BankConflict == {BANK_CONFLICT_NONE, BANK_CONFLICT_FIRST_HALF_EVEN,
                 BANK_CONFLICT_FIRST_HALF_ODD}

\* enum AugmentationMasks, GraphColor.h:107-114
Undetermined == "Undetermined"
Default16Bit == "Default16Bit"
Default32Bit == "Default32Bit"
Default64Bit == "Default64Bit"
DefaultPredicateMask == "DefaultPredicateMask"
NonDefault == "NonDefault"
AugmentationMasks == {Undetermined, Default16Bit, Default32Bit, Default64Bit,
                      DefaultPredicateMask, NonDefault}

Min(a, b) == IF a < b THEN a ELSE b
Max(a, b) == IF a < b THEN b ELSE a

\* the elements of a finite set of integers in ascending order
RECURSIVE SortedSeq(_)
SortedSeq(S) ==
    IF S = {} THEN <<>>
    ELSE LET m == CHOOSE x \in S : \A y \in S : x <= y
         IN <<m>> \o SortedSeq(S \ {m})

SeqToSet(s) == {s[i] : i \in 1..Len(s)}

(***************************************************************************)
(* State.                                                                   *)
(***************************************************************************)
VARIABLES
    \* G4_Kernel: the instruction stream of the basic block, the liveness
    \* oracle's live-out set, the declares, and the kernel's configuration
    insts, liveOut, decls, numRegTotal, simdSize, numEltPerGRF,
    \* GlobalRA
    pc, iterNo, maxRAIterations, numReservedGRFsFailSafe, fbdRegs,
    failSafeRAIteration, prevSpillCount,
    \* GraphColor
    lrs, totalGRFRegCount, failSafeIter, colorOrder, spilledLRs, result,
    \* Interference
    intf,
    \* SpillManager
    origTempDclId, tempDclId, nextTempDclId,
    \* bookkeeping of the model: coloring passes run so far, the stream and
    \* the spilled declares before the last insertSpillCode
    passes, prevInsts, lastSpilled, legalAllocation, firstEdges,
    reservedAtStart, steps,
    \* bookkeeping of the model for the interference matrix: the last call
    \* made on it, the edges set and not cleared since, and the representation
    \* init() allocated
    lastOp, edgeSet, denseAtInit,
    \* GlobalRA::varMasks, the augmentation mask of each declare
    varMasks,
    \* IncrementalRA: the configured level, the declares whose edges are to
    \* be recomputed, and the edges of the previous iteration by declare
    level, needIntfUpdate, prevIterEdges,
    \* every declare the Spill Manager created or removed was registered
    allRegistered,
    \* IncrementalRA: the register file of the iteration, the id recorded for
    \* each declare and the largest of them; idPass is the id assignment under
    \* way (the next free id, or NoId between two assignments) and idLog the
    \* last call made
    selectedRF, varIdx, maxVarIdx, idPass, idLog,
    \* GraphColor::assignColors: the entries of colorOrder not yet tried
    assignIdx,
    \* Augmentation: the sweep order and the position in it, the two queues
    \* of the active intervals, and what each queue has delivered so far
    sortedIntervals, sweepIdx, defaultMaskQueue, nonDefaultMaskQueue, delivered,
    \* GlobalRA::vars: the alignment the allocator records for each declare
    \* (RAVarInfo::subAlign, isEvenAlign); dclAlign is the alignment the
    \* declare itself carries and alignLog the last call made
    varInfo, dclAlign, alignLog,
    \* a second Interference object, given the calls intf is given
    intfTwin,
    \* GenXStructSplitter: the struct types of the module and its allocas of
    \* arrays, StructFilter::BannedStructs, DependencyGraph::AllStructs, the
    \* nodes and Heads of the graph, the heads recreateGraph has yet to visit,
    \* the nodes processNode is running on, the position of the pass, and what
    \* processNode has done: calls completed per node, the splits with the
    \* children the node had, whether eraseChild failed its assertion
    types, allocas, BannedStructs, AllStructs, nodes, Heads, headsLeft,
    callStack, splitPc, processed, splitLog, eraseFailed,
    \* GraphColor::spAddrRegSig; activeFills is, for each sub-register of a0,
    \* the word an earlier fill put there that neither a spill to its location
    \* nor another write to the sub-register has followed (NoWord if none),
    \* and fillLog the last instruction the cleanup saw
    spAddrRegSig, activeFills, fillLog

kernelVars == <<insts, liveOut, decls, numRegTotal, simdSize, numEltPerGRF>>
graVars == <<pc, iterNo, maxRAIterations, numReservedGRFsFailSafe, fbdRegs,
             failSafeRAIteration, prevSpillCount>>
gcVars == <<lrs, totalGRFRegCount, failSafeIter, colorOrder, spilledLRs, result>>
spillVars == <<origTempDclId, tempDclId, nextTempDclId>>
\* steps is the number of steps the loop has taken
ghostVars == <<passes, prevInsts, lastSpilled, legalAllocation, firstEdges,
               reservedAtStart, steps>>
bookVars == <<passes, prevInsts, lastSpilled, legalAllocation, firstEdges,
              reservedAtStart>>
matVars == <<lastOp, edgeSet, denseAtInit>>
incVars == <<level, needIntfUpdate, prevIterEdges, allRegistered>>
idVars == <<selectedRF, varIdx, maxVarIdx, idPass, idLog>>
\* the state of the allocator's pipeline and of the interference matrix
raVars == <<kernelVars, graVars, gcVars, intf, spillVars, ghostVars, matVars,
           varMasks, incVars>>
\* the state of the components beside the pipeline
augVars == <<sortedIntervals, sweepIdx, defaultMaskQueue, nonDefaultMaskQueue,
            delivered>>
alignVars == <<varInfo, dclAlign, alignLog>>
\* the variables of the components modelled on their own
splitVars == <<types, allocas, BannedStructs, AllStructs, nodes, Heads,
               headsLeft, callStack, splitPc, processed, splitLog, eraseFailed>>
fillVars == <<spAddrRegSig, activeFills, fillLog>>
lateVars == <<alignVars, intfTwin, splitVars, fillVars>>
sideVars == <<idVars, assignIdx, augVars, lateVars>>
vars == <<raVars, sideVars>>

(***************************************************************************)
(* The kernel (external interface, spec.md section 6).                      *)
(* An instruction has at most one destination declare and a set of source   *)
(* declares; fill and spill are the load and store the Spill Manager        *)
(* inserts, slot naming the spilled declare whose memory location they      *)
(* access.                                                                  *)
(***************************************************************************)
Inst(op, dst, srcs, slot) == [op |-> op, dst |-> dst, srcs |-> srcs, slot |-> slot]

\* a declare: rows (GRFs) it needs, whether it is the return ip, whether the
\* Spill Manager created it, its spill flag, its even alignment and the kind
\* of forbidden registers it is given, and its bank-conflict hint
Dcl(rows, retIp, tmp, fbd, even, bank) ==
    [numRows |-> rows, retIp |-> retIp, spillTmp |-> tmp, spillFlag |-> FALSE,
     forbiddenType |-> fbd, isEvenAlign |-> even, conflict |-> bank,
     phyReg |-> NoReg]

DclIds == 0 .. (Len(decls) - 1)
getDcl(d) == decls[d + 1]

\* the declares an instruction refers to
InstOpnds(i) == i.srcs \cup (IF i.dst = NoDcl THEN {} ELSE {i.dst})
RefsOf(stream) == UNION {InstOpnds(stream[k]) : k \in 1..Len(stream)}

(***************************************************************************)
(* class Interference (GraphColor.h:526-714).  intf is the object:          *)
(* maxId, denseMatrixLimit, matrix (the dense words, each word the set of   *)
(* its set bit positions 0..31) and sparseMatrix (one bit-set per row).     *)
(***************************************************************************)
\* the row length in words, ceil(maxId / 32) (spec.md 4.1)
rowSize(I) == (I.maxId + BITS_DWORD - 1) \div BITS_DWORD

\* (UINT_MAX - 1) / 2 for the 32-bit unsigned int: UINT_MAX itself is beyond
\* the integers the model checker computes with
HALF_UINT_MAX == 2147483647

\* a * b < UINT_MAX, computed without forming the product: for a >= 2 it is
\* b <= (UINT_MAX - 1) \div a, and (UINT_MAX - 1) = 2 * HALF_UINT_MAX
ProductBelowUintMax(a, b) ==
    \/ a <= 1
    \/ b <= 2 * (HALF_UINT_MAX \div a) + (2 * (HALF_UINT_MAX % a)) \div a

\* the size of the dense matrix not looked at
useDenseMatrix_LimitOnly(I) == I.maxId < I.denseMatrixLimit
\* the answer depends on what the matrix holds: dense only while it is empty
useDenseMatrix_WhileEmpty(I) ==
    /\ I.maxId < I.denseMatrixLimit
    /\ ProductBelowUintMax(rowSize(I), I.maxId)
    /\ \A i \in DOMAIN I.matrix : I.matrix[i] = {}
useDenseMatrix(I) ==
    (I.maxId < I.denseMatrixLimit) /\ ProductBelowUintMax(rowSize(I), I.maxId)

\* Interference::Interference: n live ranges, the configured limit, nothing
\* allocated
Interference(n, limit) ==
    [maxId |-> n, denseMatrixLimit |-> limit,
     matrix |-> <<>>, sparseMatrix |-> <<>>]

\* Interference::init: the zeroed dense words, or one empty bit-set per row
init(I) ==
    IF useDenseMatrix(I)
    THEN [I EXCEPT !.matrix = [i \in 0 .. (rowSize(I) * I.maxId - 1) |-> {}]]
    ELSE [I EXCEPT !.sparseMatrix = [r \in 0 .. (I.maxId - 1) |-> {}]]

\* the constructor followed by init()
InterferenceInit(n, limit) == init(Interference(n, limit))

\* the bit is flipped
safeSetInterference_Toggle(I, v1, v2) ==
    IF useDenseMatrix(I)
    THEN LET col == v2 \div BITS_DWORD
             idx == v1 * rowSize(I) + col
             bit == v2 % BITS_DWORD
         IN [I EXCEPT !.matrix[idx] =
                 IF bit \in @ THEN @ \ {bit} ELSE @ \cup {bit}]
    ELSE [I EXCEPT !.sparseMatrix[v1] =
              IF v2 \in @ THEN @ \ {v2} ELSE @ \cup {v2}]
safeSetInterference(I, v1, v2) ==
    IF useDenseMatrix(I)
    THEN LET col == v2 \div BITS_DWORD
             idx == v1 * rowSize(I) + col
         IN [I EXCEPT !.matrix[idx] = @ \cup {v2 % BITS_DWORD}]
    ELSE [I EXCEPT !.sparseMatrix[v1] = @ \cup {v2}]

safeClearInterference(I, v1, v2) ==
    IF useDenseMatrix(I)
    THEN LET col == v2 \div BITS_DWORD
             idx == v1 * rowSize(I) + col
         IN [I EXCEPT !.matrix[idx] = @ \ {v2 % BITS_DWORD}]
    ELSE [I EXCEPT !.sparseMatrix[v1] = @ \ {v2}]

\* the loop of the sparse branch stops before the last bit of the word
setBlockInterferencesOneWay_Short(I, v1, col, block) ==
    IF useDenseMatrix(I)
    THEN [I EXCEPT !.matrix[v1 * rowSize(I) + col] = @ \cup block]
    ELSE [I EXCEPT !.sparseMatrix[v1] =
              @ \cup {col * BITS_DWORD + i : i \in block \cap (0 .. (BITS_DWORD - 2))}]

\* setBlockInterferencesOneWay: the bits of block (bit positions of one
\* word) are set in word col of row v1
setBlockInterferencesOneWay(I, v1, col, block) ==
    IF useDenseMatrix(I)
    THEN [I EXCEPT !.matrix[v1 * rowSize(I) + col] = @ \cup block]
    ELSE [I EXCEPT !.sparseMatrix[v1] =
              @ \cup {col * BITS_DWORD + i : i \in block \cap (0 .. (BITS_DWORD - 1))}]

\* Interference::~Interference: the dense words are freed
destroy(I) == IF useDenseMatrix(I) THEN [I EXCEPT !.matrix = <<>>] ELSE I

\* nothing recorded when the larger id comes first
checkAndSetIntf_Ordered(I, v1, v2) ==
    IF v1 < v2 THEN safeSetInterference(I, v1, v2) ELSE I
\* the arguments taken in the order given
checkAndSetIntf_Unordered(I, v1, v2) == safeSetInterference(I, v1, v2)
checkAndSetIntf(I, v1, v2) ==
    IF v1 < v2 THEN safeSetInterference(I, v1, v2)
    ELSE IF v1 > v2 THEN safeSetInterference(I, v2, v1)
    ELSE I

\* the query: the bit of the larger id in the row of the smaller id
interfereBetween(I, v1, v2) ==
    LET lo == Min(v1, v2)
        hi == Max(v1, v2)
    IN IF v1 = v2 THEN FALSE
       ELSE IF useDenseMatrix(I)
       THEN (hi % BITS_DWORD) \in I.matrix[lo * rowSize(I) + hi \div BITS_DWORD]
       ELSE hi \in I.sparseMatrix[lo]

\* every (row, column) pair the matrix stores
StoredBits(I) ==
    IF useDenseMatrix(I)
    THEN {<<r, c>> \in (0 .. (I.maxId - 1)) \X (0 .. (rowSize(I) * BITS_DWORD - 1)) :
            (c % BITS_DWORD) \in I.matrix[r * rowSize(I) + c \div BITS_DWORD]}
    ELSE {<<r, c>> \in (0 .. (I.maxId - 1)) \X (0 .. (I.maxId - 1)) :
            c \in I.sparseMatrix[r]}

\* every (row, column) pair an object stores, whichever columns they are
StoredPairs(I) ==
    IF useDenseMatrix(I)
    THEN StoredBits(I)
    ELSE {<<r, c>> \in (0 .. (I.maxId - 1)) \X (0 .. (rowSize(I) * BITS_DWORD - 1)) :
            c \in I.sparseMatrix[r]}

(***************************************************************************)
(* class ForbiddenRegs (GraphColor.h:934-960): one bitset per forbidden     *)
(* kind.  The templates: the last GRF; every GRF below the end-of-thread    *)
(* window; both.                                                            *)
(***************************************************************************)
generateForbiddenTemplates(n) ==
    [k \in forbiddenKind \ {FBD_NUM} |->
        CASE k = FBD_LASTGRF -> {n - 1} \cap (0 .. (n - 1))
          [] k = FBD_EOT -> 0 .. (n - EOTWindow - 1)
          [] k = FBD_EOTLASTGRF -> (0 .. (n - EOTWindow - 1)) \cup {n - 1}]

\* every kind answered with no forbidden register
getForbiddenRegs_None(F, type) == {}
\* every kind answered with the template of the last GRF
getForbiddenRegs_LastGRF(F, type) == F[FBD_LASTGRF]
getForbiddenRegs(F, type) == F[type]

(***************************************************************************)
(* class LiveRange (GraphColor.h:115-276).                                  *)
(***************************************************************************)
\* refCount: the instructions of the stream that refer to the declare
RefCount(stream, d) == Cardinality({k \in 1..Len(stream) : d \in InstOpnds(stream[k])})

\* LiveRange::createNewLiveRange and the costs GraphColor::computeSpillCosts
\* gives it: infinite for the return ip and for the Spill Manager's temporaries
createNewLiveRange(dcl, d, stream) ==
    [dcl |-> d,
     numRegNeeded |-> dcl.numRows,
     forbiddenType |-> dcl.forbiddenType,
     isEvenAlign |-> dcl.isEvenAlign,
     spilled |-> FALSE,
     isUnconstrained |-> FALSE,
     degree |-> 0,
     refCount |-> RefCount(stream, d),
     phyReg |-> NoReg,
     subRegOff |-> 0,
     spillCost |-> RefCount(stream, d),
     bc |-> dcl.conflict,
     active |-> FALSE,
     retIp |-> dcl.retIp,
     isInfiniteCost |-> dcl.retIp \/ dcl.spillTmp]

\* the degree is lowered twice
subtractDegree_Twice(lr, d) == [lr EXCEPT !.degree = @ - 2 * d]
\* the live range is not marked
setSpilled_Ignore(lr, v) == lr
\* every degree read as 0
getDegree_Zero(lr) == 0
\* every live range taken to need one register
getNumRegNeeded_One(lr) == 1
getNumRegNeeded(lr) == lr.numRegNeeded
getDegree(lr) == lr.degree
setDegree(lr, d) == [lr EXCEPT !.degree = d]
subtractDegree(lr, d) == [lr EXCEPT !.degree = @ - d]
setActive(lr, v) == [lr EXCEPT !.active = v]
getActive(lr) == lr.active
setUnconstrained(lr, d) == [lr EXCEPT !.isUnconstrained = d]
getIsInfiniteSpillCost(lr) == lr.isInfiniteCost
getPhyReg(lr) == lr.phyReg
\* every live range bound to register 0
setPhyReg_Zero(lr, pr, off) == [lr EXCEPT !.phyReg = 0, !.subRegOff = off]
setPhyReg(lr, pr, off) == [lr EXCEPT !.phyReg = pr, !.subRegOff = off]
resetPhyReg(lr) == [lr EXCEPT !.phyReg = NoReg, !.subRegOff = 0]
isSpilled(lr) == lr.spilled
setSpilled(lr, v) == [lr EXCEPT !.spilled = v]
isRetIp(lr) == lr.retIp
getBC(lr) == lr.bc

\* LiveRange::getForbidden: the template of the live range's forbidden kind
getForbidden(F, lr) ==
    IF lr.forbiddenType = FBD_NUM THEN {} ELSE getForbiddenRegs(F, lr.forbiddenType)

LRIds(l) == 0 .. (Len(l) - 1)
LR(l, id) == l[id + 1]

(***************************************************************************)
(* class GraphColor (GraphColor.h:733-848): one coloring pass.              *)
(***************************************************************************)
\* a live range for every declare that has neither been spilled nor been given
\* a register beforehand, ids dense in declare order
RECURSIVE LiveRangesOf(_, _, _)
LiveRangesOf(ds, d, stream) ==
    IF d >= Len(ds) THEN <<>>
    ELSE (IF ds[d + 1].spillFlag \/ ds[d + 1].phyReg # NoReg THEN <<>>
          ELSE <<createNewLiveRange(ds[d + 1], d, stream)>>)
         \o LiveRangesOf(ds, d + 1, stream)

createLiveRanges(ds, stream) == LiveRangesOf(ds, 0, stream)

\* the id of the live range of declare d, NoDcl when it has none
LRIdOf(l, d) ==
    IF \E id \in LRIds(l) : LR(l, id).dcl = d
    THEN CHOOSE id \in LRIds(l) : LR(l, id).dcl = d
    ELSE NoDcl

Neighbors(l, I, id) == {n \in LRIds(l) : interfereBetween(I, id, n)}

\* the registers a live range would hold when it starts at register c
RegRange(c, n) == c .. (c + n - 1)
AssignedRegs(lr) ==
    IF getPhyReg(lr) = NoReg THEN {} ELSE RegRange(getPhyReg(lr), lr.numRegNeeded)

\* start positions an interference neighbour takes away: both footprints
edgeWeightGRF(lr1, lr2) == getNumRegNeeded(lr1) + getNumRegNeeded(lr2) - 1

RECURSIVE SumWeights(_, _, _)
SumWeights(l, id, S) ==
    IF S = {} THEN 0
    ELSE LET n == CHOOSE x \in S : TRUE
         IN edgeWeightGRF(LR(l, id), LR(l, n)) + SumWeights(l, id, S \ {n})

computeDegreeForGRF(l, I) ==
    [k \in 1..Len(l) |->
        setActive(setDegree(l[k], SumWeights(l, k - 1, Neighbors(l, I, k - 1))), TRUE)]

\* removing a live range from the graph lowers the degree of every neighbour
\* that is still in it
relaxNeighborDegreeGRF(l, I, id) ==
    [k \in 1..Len(l) |->
        IF (k - 1) \in Neighbors(l, I, id) /\ getActive(l[k])
        THEN subtractDegree(l[k], edgeWeightGRF(l[k], LR(l, id)))
        ELSE l[k]]

\* a is cheaper to spill than b (an infinite cost is above every finite one)
CostBelow(a, b) ==
    IF getIsInfiniteSpillCost(a) THEN FALSE
    ELSE IF getIsInfiniteSpillCost(b) THEN TRUE
    ELSE a.spillCost < b.spillCost

\* the next live range simplification removes: an unconstrained one (degree
\* below the number of colors) of lowest degree if there is one, otherwise the
\* constrained one that is cheapest to spill; ties go to the lower id
NextToRemove(l, numColor) ==
    LET act == {id \in LRIds(l) : getActive(LR(l, id))}
        unc == {id \in act : getDegree(LR(l, id)) < numColor}
    IN IF unc # {}
       THEN CHOOSE id \in unc : \A o \in unc :
              \/ getDegree(LR(l, id)) < getDegree(LR(l, o))
              \/ (getDegree(LR(l, id)) = getDegree(LR(l, o)) /\ id <= o)
       ELSE CHOOSE id \in act : \A o \in act :
              \/ CostBelow(LR(l, id), LR(l, o))
              \/ (~CostBelow(LR(l, o), LR(l, id)) /\ id <= o)

\* one removal: st is [lrs, colorOrder]
RemoveStep(st, I, numColor) ==
    LET l == st.lrs
        id == NextToRemove(l, numColor)
        unc == getDegree(LR(l, id)) < numColor
        l1 == [l EXCEPT ![id + 1] = setActive(setUnconstrained(@, unc), FALSE)]
    IN [lrs |-> relaxNeighborDegreeGRF(l1, I, id),
        colorOrder |-> Append(st.colorOrder, id)]

RECURSIVE Simplify(_, _, _)
Simplify(st, I, numColor) ==
    IF \A id \in LRIds(st.lrs) : ~getActive(LR(st.lrs, id)) THEN st
    ELSE Simplify(RemoveStep(st, I, numColor), I, numColor)

determineColorOrdering(l, I, numColor) ==
    Simplify([lrs |-> computeDegreeForGRF(l, I), colorOrder |-> <<>>], I, numColor)

\* start registers that respect the budget, the alignment and the forbidden
\* registers of the live range
FitsAlone(lr, F, total) ==
    {c \in 0 .. (total - getNumRegNeeded(lr)) :
        /\ lr.isEvenAlign => c % 2 = 0
        /\ RegRange(c, getNumRegNeeded(lr)) \cap getForbidden(F, lr) = {}}

\* ... and are free of every colored interference neighbour
LegalColors(l, I, F, total, id) ==
    {c \in FitsAlone(LR(l, id), F, total) :
        \A n \in Neighbors(l, I, id) :
            RegRange(c, getNumRegNeeded(LR(l, id))) \cap AssignedRegs(LR(l, n)) = {}}

\* the bank-conflict hint is a preference among the legal colors only
PreferredColors(lr, legal) ==
    CASE getBC(lr) = BANK_CONFLICT_FIRST_HALF_EVEN -> {c \in legal : c % 2 = 0}
      [] getBC(lr) = BANK_CONFLICT_FIRST_HALF_ODD -> {c \in legal : c % 2 = 1}
      [] OTHER -> legal

LowestOf(S) == CHOOSE c \in S : \A o \in S : c <= o

\* color one live range, or mark it spilled when no color is legal
AssignColor(l, I, F, total, id) ==
    LET legal == LegalColors(l, I, F, total, id)
        pref == PreferredColors(LR(l, id), legal)
    IN IF legal = {}
       THEN [l EXCEPT ![id + 1] = setSpilled(@, TRUE)]
       ELSE [l EXCEPT ![id + 1] =
                setPhyReg(@, LowestOf(IF pref # {} THEN pref ELSE legal), 0)]

\* colors are assigned in the reverse of the removal order
RECURSIVE AssignFrom(_, _, _, _, _, _)
AssignFrom(l, I, F, total, order, k) ==
    IF k = 0 THEN l
    ELSE AssignFrom(AssignColor(l, I, F, total, order[k]), I, F, total, order, k - 1)

assignColors(l, I, F, total, order) == AssignFrom(l, I, F, total, order, Len(order))

\* the spilled live ranges, in the order they were met
RECURSIVE SpilledFrom(_, _, _)
SpilledFrom(l, order, k) ==
    IF k = 0 THEN <<>>
    ELSE (IF isSpilled(LR(l, order[k])) THEN <<order[k]>> ELSE <<>>)
         \o SpilledFrom(l, order, k - 1)

\* spill code never asked for
requireSpillCode_Never(spilled) == FALSE
requireSpillCode(spilled) == spilled # <<>>

\* GraphColor::regAlloc: order, color; the pass succeeds when nothing spilled
regAlloc(l, I, F, total) ==
    LET st == determineColorOrdering(l, I, total)
        colored == assignColors(st.lrs, I, F, total, st.colorOrder)
        spilled == SpilledFrom(colored, st.colorOrder, Len(st.colorOrder))
    IN [lrs |-> colored, colorOrder |-> st.colorOrder, spilledLRs |-> spilled,
        success |-> ~requireSpillCode(spilled)]

(***************************************************************************)
(* Interference::computeInterference for the basic block (spec.md 4.1):     *)
(* the block is walked in reverse with a live set seeded from live-out; a   *)
(* destination interferes with every live variable but itself, is then      *)
(* removed from the live set, and the sources are added.                    *)
(***************************************************************************)
\* the id is taken out of the live set whatever val is
updateLiveness_Reset(live, id, val) == live \ {id}
updateLiveness(live, id, val) == IF val THEN live \cup {id} ELSE live \ {id}

RECURSIVE buildInterferenceWithLive(_, _, _)
buildInterferenceWithLive(I, live, i) ==
    IF live = {} THEN I
    ELSE LET k == CHOOSE x \in live : TRUE
         IN buildInterferenceWithLive(checkAndSetIntf(I, i, k), live \ {k}, i)

\* the live range ids of a set of declares
IdsOf(l, D) == {id \in LRIds(l) : LR(l, id).dcl \in D}

RECURSIVE AddLive(_, _)
AddLive(live, S) ==
    IF S = {} THEN live
    ELSE LET k == CHOOSE x \in S : TRUE
         IN AddLive(updateLiveness(live, k, TRUE), S \ {k})

RECURSIVE buildInterferenceWithinBB(_, _, _, _, _)
buildInterferenceWithinBB(I, l, stream, k, live) ==
    IF k = 0 THEN I
    ELSE LET inst == stream[k]
             dst == LRIdOf(l, inst.dst)
             I1 == IF dst = NoDcl THEN I ELSE buildInterferenceWithLive(I, live, dst)
             live1 == IF dst = NoDcl THEN live ELSE updateLiveness(live, dst, FALSE)
             live2 == AddLive(live1, IdsOf(l, inst.srcs))
         IN buildInterferenceWithinBB(I1, l, stream, k - 1, live2)

(***************************************************************************)
(* class Augmentation (GraphColor.h:311-394), spec.md 3 and 4.2: the live   *)
(* interval of a declare runs from the first to the last instruction that   *)
(* refers to it; the intervals are swept in the order of their start, the   *)
(* ones that ended before the new one starts expire, and the new one is     *)
(* compared against every one still active.                                 *)
(***************************************************************************)
\* every declare takes the mask Undetermined
getAugmentationMask_Undetermined(masks, d) == Undetermined
\* GlobalRA::getAugmentationMask, d a declare id
getAugmentationMask(masks, d) ==
    IF d >= Len(masks) THEN Undetermined ELSE masks[d + 1]

\* GlobalRA::setAugmentationMask
setAugmentationMask(masks, d, m) ==
    LET resized == IF d >= Len(masks)
                   THEN masks \o [k \in 1 .. (d + 1 - Len(masks)) |-> Undetermined]
                   ELSE masks
    IN [resized EXCEPT ![d + 1] = m]

\* the masks of the declares not classified yet: a temporary of the Spill
\* Manager takes the mask of the variable whose accesses it replaces
RECURSIVE markNonDefaultMaskDef(_, _, _)
markNonDefaultMaskDef(masks, stream, ds) ==
    IF Len(masks) >= Len(ds) THEN masks
    ELSE LET d == Len(masks)
             at == {k \in 1 .. Len(stream) :
                      /\ stream[k].op \in {"fill", "spill"}
                      /\ d \in InstOpnds(stream[k])}
             m == IF at = {} THEN Default32Bit
                  ELSE getAugmentationMask(masks,
                                           stream[CHOOSE k \in at : TRUE].slot)
         IN markNonDefaultMaskDef(setAugmentationMask(masks, d, m), stream, ds)

\* the instructions that refer to declare d
RefsTo(stream, d) == {k \in 1 .. Len(stream) : d \in InstOpnds(stream[k])}

\* the live interval of every live range: start and end instruction (0 and
\* -1 for a live range nothing refers to)
buildLiveIntervals(l, stream) ==
    [id \in LRIds(l) |->
        LET R == RefsTo(stream, LR(l, id).dcl)
        IN IF R = {} THEN [start |-> 0, end |-> 0 - 1]
           ELSE [start |-> CHOOSE k \in R : \A j \in R : k <= j,
                 end |-> CHOOSE k \in R : \A j \in R : k >= j]]

\* sortedIntervals: the live ranges in the order of interval start, then id
\* (the queues of the active intervals are the ones ordered by interval end,
\* GraphColor.h:325-326, and expireIntervals takes the start of the new one)
RECURSIVE sortLiveIntervals(_, _)
sortLiveIntervals(iv, S) ==
    IF S = {} THEN <<>>
    ELSE LET m == CHOOSE x \in S : \A y \in S :
                      \/ iv[x].start < iv[y].start
                      \/ (iv[x].start = iv[y].start /\ x <= y)
         IN <<m>> \o sortLiveIntervals(iv, S \ {m})

\* the active intervals that have not ended before instruction start
expireIntervals(active, iv, start) == {a \in active : iv[a].end >= start}

\* the two masks are one default mask of one width
SameDefaultMask(m1, m2) ==
    m1 = m2 /\ m1 \in {Default16Bit, Default32Bit, Default64Bit}

\* no edge for one default mask at one width, a full edge otherwise
handleSIMDIntf(I, l, masks, first, second) ==
    IF SameDefaultMask(getAugmentationMask(masks, LR(l, first).dcl),
                       getAugmentationMask(masks, LR(l, second).dcl))
    THEN I
    ELSE checkAndSetIntf(I, first, second)

RECURSIVE buildSIMDIntfAll(_, _, _, _, _)
buildSIMDIntfAll(I, l, masks, active, new) ==
    IF active = {} THEN I
    ELSE LET a == CHOOSE x \in active : TRUE
         IN buildSIMDIntfAll(handleSIMDIntf(I, l, masks, a, new), l, masks,
                             active \ {a}, new)

RECURSIVE SweepIntervals(_, _, _, _, _, _, _)
SweepIntervals(I, l, masks, iv, sorted, k, active) ==
    IF k > Len(sorted) THEN I
    ELSE LET new == sorted[k]
             act == expireIntervals(active, iv, iv[new].start)
         IN SweepIntervals(buildSIMDIntfAll(I, l, masks, act, new), l, masks,
                           iv, sorted, k + 1, act \cup {new})

augmentIntfGraph(I, l, stream, masks) ==
    LET iv == buildLiveIntervals(l, stream)
        referred == {id \in LRIds(l) : iv[id].end >= iv[id].start}
    IN SweepIntervals(I, l, masks, iv, sortLiveIntervals(iv, referred), 1, {})

\* the edges of liveness, then the edges of augmentation
computeInterference(I, l, stream, out, masks) ==
    augmentIntfGraph(
        buildInterferenceWithinBB(I, l, stream, Len(stream), IdsOf(l, out)),
        l, stream, masks)

(***************************************************************************)
(* class IncrementalRA (GraphColor.h:401-522), spec.md 4.6: the edges       *)
(* between live ranges that are not registered for an update are taken over *)
(* from the previous iteration, the edges of the registered ones are        *)
(* computed anew.                                                           *)
(***************************************************************************)
\* verification is never on
isEnabledWithVerification_Never(lv) == FALSE
\* a new declare is not registered
addNewRAVariable_Skip(need, d) == need

isEnabled(lv) == lv > 0
isEnabledWithVerification(lv) == lv = 2
clearCandidates(need) == {}
addNewRAVariable(need, d) == need \cup {d}
markForIntfUpdate(need, d) == need \cup {d}

\* the Spill Manager registers the temporaries it created
RECURSIVE addNewRAVariables(_, _)
addNewRAVariables(need, ds) ==
    IF ds = {} THEN need
    ELSE LET d == CHOOSE x \in ds : TRUE
         IN addNewRAVariables(addNewRAVariable(need, d), ds \ {d})

\* the Spill Manager registers the declares it removed from the program
RECURSIVE markAllForIntfUpdate(_, _)
markAllForIntfUpdate(need, ds) ==
    IF ds = {} THEN need
    ELSE LET d == CHOOSE x \in ds : TRUE
         IN markAllForIntfUpdate(markForIntfUpdate(need, d), ds \ {d})

\* the edges of a graph by the declares of the live ranges
DclEdges(l, I) ==
    {{LR(l, e[1]).dcl, LR(l, e[2]).dcl} :
        e \in {x \in LRIds(l) \X LRIds(l) :
                  x[1] < x[2] /\ interfereBetween(I, x[1], x[2])}}

RECURSIVE setInterferences(_, _)
setInterferences(I, E) ==
    IF E = {} THEN I
    ELSE LET e == CHOOSE x \in E : TRUE
         IN setInterferences(checkAndSetIntf(I, e[1], e[2]), E \ {e})

\* the graph of this iteration from the one before: a pair with a dirty
\* live range has the edge liveness and augmentation compute for it now, a
\* pair without has the edge it had
computeIncremental(I, l, stream, out, masks, prev, dirty) ==
    LET now == computeInterference(I, l, stream, out, masks)
        E == {e \in LRIds(l) \X LRIds(l) :
                /\ e[1] < e[2]
                /\ IF LR(l, e[1]).dcl \in dirty \/ LR(l, e[2]).dcl \in dirty
                   THEN interfereBetween(now, e[1], e[2])
                   ELSE {LR(l, e[1]).dcl, LR(l, e[2]).dcl} \in prev}
    IN setInterferences(I, E)

\* IncrementalRA::verify: the two graphs have the same edges
verify(l, I, J) == DclEdges(l, I) = DclEdges(l, J)

(***************************************************************************)
(* class SpillManager (SpillCode.h:18-97), spec.md 4.5.  st is the kernel   *)
(* under rewriting: [insts, decls, tempDclId]; S the spilled declares;      *)
(* reg the register the temporaries are bound to (NoReg: none, they are     *)
(* allocated in the next iteration).                                        *)
(***************************************************************************)
\* SpillManager::SpillManager
SpillManagerInit(startTempDclId) ==
    [origTempDclId |-> startTempDclId, tempDclId |-> startTempDclId]

getNumTempCreated(sm) == sm.tempDclId - sm.origTempDclId
isAnyNewTempCreated(sm) == getNumTempCreated(sm) # 0
\* the id the manager started from handed on
getNextTempDclId_Start(sm) == sm.origTempDclId
getNextTempDclId(sm) == sm.tempDclId

\* a new temporary for a reference of the spilled declare dcl
createNewTempDeclare(dcl, reg) ==
    [Dcl(dcl.numRows, FALSE, TRUE, dcl.forbiddenType, dcl.isEvenAlign,
         BANK_CONFLICT_NONE) EXCEPT !.phyReg = reg]

\* the sources of the instruction at the end of st.insts that are spilled are
\* replaced one by one, each by a new temporary filled just before it
RECURSIVE replaceSpilledSrc(_, _, _)
replaceSpilledSrc(st, todo, reg) ==
    IF todo = <<>> THEN st
    ELSE LET s == Head(todo)
             t == Len(st.decls)
             n == Len(st.insts)
             inst == st.insts[n]
             fill == Inst("fill", t, {}, s)
             inst1 == [inst EXCEPT !.srcs = (@ \ {s}) \cup {t}]
         IN replaceSpilledSrc(
              [insts |-> SubSeq(st.insts, 1, n - 1) \o <<fill, inst1>>,
               decls |-> Append(st.decls, createNewTempDeclare(st.decls[s + 1], reg)),
               tempDclId |-> st.tempDclId + 1],
              Tail(todo), reg)

\* a spilled destination of the instruction at the end of st.insts is replaced
\* by a new temporary stored just after it
replaceSpilledDst(st, S, reg) ==
    LET n == Len(st.insts)
        inst == st.insts[n]
        t == Len(st.decls)
    IN IF inst.dst \notin S THEN st
       ELSE [insts |-> SubSeq(st.insts, 1, n - 1)
                       \o <<[inst EXCEPT !.dst = t], Inst("spill", NoDcl, {t}, inst.dst)>>,
             decls |-> Append(st.decls, createNewTempDeclare(st.decls[inst.dst + 1], reg)),
             tempDclId |-> st.tempDclId + 1]

RECURSIVE RewriteFrom(_, _, _, _, _)
RewriteFrom(st, stream, k, S, reg) ==
    IF k > Len(stream) THEN st
    ELSE LET st0 == [st EXCEPT !.insts = Append(@, stream[k])]
             st1 == replaceSpilledSrc(st0, SortedSeq(stream[k].srcs \cap S), reg)
             st2 == replaceSpilledDst(st1, S, reg)
         IN RewriteFrom(st2, stream, k + 1, S, reg)

\* SpillManager::insertSpillCode: the spill flag of every spilled declare is
\* set and every instruction that refers to one is rewritten
insertSpillCode(stream, ds, sm, S, reg) ==
    RewriteFrom([insts |-> <<>>,
                 decls |-> [k \in 1..Len(ds) |->
                              IF (k - 1) \in S THEN [ds[k] EXCEPT !.spillFlag = TRUE]
                              ELSE ds[k]],
                 tempDclId |-> sm.tempDclId],
                stream, 1, S, reg)

(***************************************************************************)
(* class GlobalRA (GraphColor.h:962-1636).                                  *)
(***************************************************************************)
\* the iteration number never advanced
setIterNo_Zero(i) == 0
\* the iteration number jumps to the cap
setIterNo_Cap(i) == maxRAIterations
setIterNo(i) == i
getIterNo == iterNo

\* the GRFs the fail-safe mechanism reserves; the value is also cached in
\* numReservedGRFsFailSafe
\* one GRF and two GRFs exchanged
getNumReservedGRFs_Swapped(reserved, simd, elts) ==
    IF reserved = NOT_FOUND THEN (IF simd = elts THEN 2 ELSE 1) ELSE reserved
getNumReservedGRFs(reserved, simd, elts) ==
    IF reserved = NOT_FOUND
    THEN (IF simd = elts THEN 1 ELSE 2)
    ELSE reserved

setNumReservedGRFsFailSafe(num) == num

\* GraphColor::markFailSafeIter, GraphColor::setTotalGRFRegCount
markFailSafeIter(f) == f
\* the count left at the whole register file
setTotalGRFRegCount_Whole(c) == numRegTotal
setTotalGRFRegCount(c) == c

(***************************************************************************)
(* GlobalRA::coloringRegAlloc, the retry loop (spec.md 4.4, 4.5, 5, 7):     *)
(* setup -> build -> color -> (done | spill -> setup ...).                   *)
(***************************************************************************)
\* the kernels allocation starts from: instruction k defines declare k - 1
\* and reads at most one declare, itself or one defined before it (a
\* variable read at or before its definition is live into the block)
Vars == 0 .. (NumVars - 1)
InitInsts ==
    {f \in [1..NumVars -> {Inst("op", d, srcs, NoDcl) :
                             d \in Vars, srcs \in {{}} \cup {{v} : v \in Vars}}] :
        \A k \in 1..NumVars :
            /\ f[k].dst = k - 1
            /\ \A v \in f[k].srcs : v <= k - 1}
PlainDcl == Dcl(1, FALSE, FALSE, FBD_NUM, FALSE, BANK_CONFLICT_NONE)
\* a declare of two rows that starts at an even register
WideDcl == Dcl(2, FALSE, FALSE, FBD_NUM, TRUE, BANK_CONFLICT_NONE)

\* the SIMD size of the kernel with the reserved GRF count set beforehand
\* (NOT_FOUND: not set); a GRF holds 8 dwords
FailSafeConfigs == {<<8, NOT_FOUND>>, <<16, NOT_FOUND>>, <<16, 1>>}

\* no call made on the interference matrix yet
NoOp == [op |-> "none", v1 |-> 0, v2 |-> 0, res |-> FALSE]

(***************************************************************************)
(* IncrementalRA: the ids of the variables across iterations                *)
(* (GraphColor.h:406-413, 457-486).  getNextVarId and                       *)
(* moveFromHybridToGlobalGRF are inline; recordVarId, getIdFromPrevIter and *)
(* registerNextIter are declared, and are modelled from their comments.     *)
(***************************************************************************)
\* G4_RegFileKind: bit flags, G4_UndefinedRF the empty one
G4_UndefinedRF == 0
G4_GRF == 1
G4_ADDRESS == 2
G4_INPUT == 4

RECURSIVE BitAnd(_, _)
BitAnd(a, b) ==
    IF a = 0 \/ b = 0 THEN 0
    ELSE (a % 2) * (b % 2) + 2 * BitAnd(a \div 2, b \div 2)

NoId == 0 - 1
\* varIdx with nothing recorded
EmptyMap == [d \in {} |-> 0]

IncrementalRAIds(rf, idx, maxIdx) ==
    [selectedRF |-> rf, varIdx |-> idx, maxVarIdx |-> maxIdx]

\* the id after the largest recorded one is not added
getNextVarId_Max(ra, RF) ==
    LET cleared == IF BitAnd(RF, ra.selectedRF) = 0
                   THEN [ra EXCEPT !.varIdx = EmptyMap, !.maxVarIdx = 0]
                   ELSE ra
    IN [ra |-> cleared, id |-> cleared.maxVarIdx]

\* IncrementalRA::getNextVarId: the object after the call and the id returned
getNextVarId(ra, RF) ==
    LET cleared == IF BitAnd(RF, ra.selectedRF) = 0
                   THEN [ra EXCEPT !.varIdx = EmptyMap, !.maxVarIdx = 0]
                   ELSE ra
    IN [ra |-> cleared,
        id |-> IF Cardinality(DOMAIN cleared.varIdx) = 0 THEN 0
               ELSE cleared.maxVarIdx + 1]

\* IncrementalRA::moveFromHybridToGlobalGRF (reset() leaves the ids alone)
moveFromHybridToGlobalGRF(ra) ==
    [ra EXCEPT !.varIdx = EmptyMap, !.maxVarIdx = 0]

\* IncrementalRA::getIdFromPrevIter: <<found, id>>
getIdFromPrevIter(ra, d) ==
    IF d \in DOMAIN ra.varIdx THEN <<TRUE, ra.varIdx[d]>> ELSE <<FALSE, NoId>>

\* IncrementalRA::recordVarId
recordVarId(ra, d, id) ==
    [ra EXCEPT !.varIdx = [x \in DOMAIN ra.varIdx \cup {d} |->
                              IF x = d THEN id ELSE ra.varIdx[x]],
               !.maxVarIdx = Max(ra.maxVarIdx, id)]

\* IncrementalRA::registerNextIter: the register file of the iteration
registerNextIter(ra, rf) == [ra EXCEPT !.selectedRF = rf]

NoCall == [op |-> "none", dcl |-> NoDcl, id |-> NoId, rf |-> G4_UndefinedRF,
           before |-> IncrementalRAIds(G4_UndefinedRF, EmptyMap, 0)]

(***************************************************************************)
(* GlobalRA: the alignment recorded for a declare (GraphColor.h:873-874,    *)
(* 1424-1456, 1556-1586).  An alignment is a number of words; a call gives  *)
(* the records after it and whether its assertions held.                    *)
(***************************************************************************)
\* G4_SubReg_Align (Align_Any is its enumerator Any)
Align_Any == 1
Even_Word == 2
Four_Word == 4

RAVarInfo(sub, even) == [subAlign |-> sub, isEvenAlign |-> even]

getSubRegAlign(info, d) == info[d + 1].subAlign
isEvenAligned(info, d) == info[d + 1].isEvenAlign
setEvenAligned(info, d, e) == [info EXCEPT ![d + 1].isEvenAlign = e]

\* the argument is stored whatever was recorded
setSubRegAlign_Overwrite(info, d, subAlg) ==
    [info |-> [info EXCEPT ![d + 1].subAlign = subAlg], ok |-> TRUE]

setSubRegAlign(info, d, subAlg) ==
    LET subAlign == info[d + 1].subAlign
    IN IF ~(subAlign = Align_Any \/ subAlign = subAlg \/ subAlign % 2 = 0)
       THEN [info |-> info, ok |-> FALSE]
       ELSE IF subAlign > subAlg
       THEN [info |-> info, ok |-> subAlign % subAlg = 0]
       ELSE IF subAlg % subAlign = 0
       THEN [info |-> [info EXCEPT ![d + 1].subAlign = subAlg], ok |-> TRUE]
       ELSE [info |-> info, ok |-> FALSE]

\* dAlign is the alignment of the declares themselves
hasAlignSetup(info, dAlign, d) ==
    ~(getSubRegAlign(info, d) = Align_Any /\ getSubRegAlign(dAlign, d) # Align_Any)

\* copyAlignment(dst, src)
copyAlignment(info, dst, src) ==
    setSubRegAlign(setEvenAligned(info, dst, isEvenAligned(info, src)), dst,
                   getSubRegAlign(info, src))

\* copyMissingAlignment(), from declare d on
RECURSIVE copyMissingAlignment(_, _, _)
copyMissingAlignment(info, dAlign, d) ==
    IF d >= Len(info) THEN [info |-> info, ok |-> TRUE]
    ELSE IF hasAlignSetup(info, dAlign, d)
    THEN copyMissingAlignment(info, dAlign, d + 1)
    ELSE LET r == setSubRegAlign(info, d, getSubRegAlign(dAlign, d))
         IN IF ~r.ok THEN r
            ELSE copyMissingAlignment(
                     setEvenAligned(r.info, d, isEvenAligned(dAlign, d)),
                     dAlign, d + 1)

\* copyAlignment(), from declare d on
RECURSIVE copyAlignmentOfDeclares(_, _, _)
copyAlignmentOfDeclares(info, dAlign, d) ==
    IF d >= Len(info) THEN [info |-> info, ok |-> TRUE]
    ELSE LET r == setSubRegAlign(info, d, getSubRegAlign(dAlign, d))
         IN IF ~r.ok THEN r
            ELSE copyAlignmentOfDeclares(
                     setEvenAligned(r.info, d, isEvenAligned(dAlign, d)),
                     dAlign, d + 1)

NoAlignCall == [op |-> "none", dcl |-> NoDcl, arg |-> Align_Any, before |-> <<>>,
                failed |-> FALSE]

(***************************************************************************)
(* GenXStructSplitter.cpp.  A type is an integer: a struct type is its id,  *)
(* 0 and up, and the scalar types are below 0.  An element of a struct, or  *)
(* an allocated type, is a type with or without arrays around it.           *)
(***************************************************************************)
IntTy == 0 - 1
FloatTy == 0 - 2
Elem(ty, seq) == [ty |-> ty, seq |-> seq]

\* T with one more struct type, of the next id
AddType(T, body) ==
    [i \in 0 .. Cardinality(DOMAIN T) |-> IF i \in DOMAIN T THEN T[i] ELSE body]

\* getArrayFreeTy (1547-1552)
getArrayFreeTy(e) == e.ty

\* getBaseTy (1526-1542), of an array-free type
RECURSIVE getBaseTy(_, _)
getBaseTy(T, ty) ==
    IF ty < 0 THEN ty
    ELSE IF Len(T[ty]) = 0 THEN ty
    ELSE LET BaseTy == getArrayFreeTy(T[ty][1])
         IN IF \E k \in DOMAIN T[ty] : getArrayFreeTy(T[ty][k]) # BaseTy
            THEN ty
            ELSE getBaseTy(T, BaseTy)

\* StructFilter::isStructBanned
isStructBanned(Banned, STy) == STy \in Banned

\* true if STy has no array of complex structs
checkForArrayOfComplicatedStructs(T, STy) ==
    ~\E k \in DOMAIN T[STy] :
        LET Elm == T[STy][k]
            BaseTy == getArrayFreeTy(Elm)
        IN BaseTy >= 0 /\ Elm.seq /\ BaseTy = getBaseTy(T, BaseTy)

\* true if STy has no element of a banned struct
checkForElementOfBannedStruct(T, Banned, STy) ==
    ~\E k \in DOMAIN T[STy] :
        LET BaseTy == getArrayFreeTy(T[STy][k])
        IN BaseTy >= 0 /\ isStructBanned(Banned, BaseTy)

\* the first loop of the constructor, from struct STy on: NotBannedYet (the
\* structs pushed to its front) and BannedStructs
RECURSIVE LookForArrays(_, _, _, _)
LookForArrays(T, STy, NotBannedYet, Banned) ==
    IF STy \notin DOMAIN T THEN [NotBannedYet |-> NotBannedYet, Banned |-> Banned]
    ELSE IF checkForArrayOfComplicatedStructs(T, STy)
    THEN LookForArrays(T, STy + 1, <<STy>> \o NotBannedYet, Banned)
    ELSE LookForArrays(T, STy + 1, NotBannedYet, Banned \cup {STy})

\* the second loop of the constructor, with the iterator at position It
RECURSIVE LookForBanned(_, _, _, _)
LookForBanned(T, NotBannedYet, Banned, It) ==
    IF It > Len(NotBannedYet) THEN Banned
    ELSE IF ~checkForElementOfBannedStruct(T, Banned, NotBannedYet[It])
    THEN LookForBanned(T,
                       SubSeq(NotBannedYet, 1, It - 1)
                           \o SubSeq(NotBannedYet, It + 1, Len(NotBannedYet)),
                       Banned \cup {NotBannedYet[It]}, 1)
    ELSE LookForBanned(T, NotBannedYet, Banned, It + 1)

\* StructFilter::visitAllocaInst on every alloca: AI is the allocated type
visitAllocaInst(Banned, AI) ==
    IF getArrayFreeTy(AI) >= 0 /\ AI.seq THEN Banned \cup {getArrayFreeTy(AI)}
    ELSE Banned
visitAllocas(Banned, A) ==
    Banned \cup UNION {visitAllocaInst({}, AI) : AI \in A}

\* StructFilter::StructFilter: BannedStructs
StructFilter(T, A) ==
    LET first == LookForArrays(T, 0, <<>>, {})
    IN visitAllocas(LookForBanned(T, first.NotBannedYet, first.Banned, 1), A)

\* DependencyGraph::isPlain
isPlain(AS, STy) == STy \in DOMAIN AS /\ Cardinality(DOMAIN AS[STy]) < 2

\* DependencyGraph::getPlainSubTy
getPlainSubTy(T, AS, STy) ==
    IF isPlain(AS, STy) /\ DOMAIN AS[STy] # {}
    THEN CHOOSE b \in DOMAIN AS[STy] : TRUE
    ELSE getBaseTy(T, STy)

\* the base type setInfoAboutStructure files an element under
BaseTyOfElm(T, AS, Elm) ==
    LET BaseTy == getBaseTy(T, getArrayFreeTy(Elm))
    IN IF BaseTy >= 0 THEN getPlainSubTy(T, AS, BaseTy) ELSE BaseTy

\* DependencyGraph::setInfoAboutStructure: AllStructs with the elements of
\* STy by base type
setInfoAboutStructure(T, AS, STy) ==
    LET body == T[STy]
        bases == {BaseTyOfElm(T, AS, body[k]) : k \in DOMAIN body}
        BaseTypes == [b \in bases |->
                        LET OfBase(Elm) == BaseTyOfElm(T, AS, Elm) = b
                        IN SelectSeq(body, OfBase)]
    IN AS @@ (STy :> BaseTypes)

\* DependencyGraph::DependencyGraph, from struct STy on
RECURSIVE DependencyGraph(_, _, _, _)
DependencyGraph(T, Banned, AS, STy) ==
    IF STy \notin DOMAIN T THEN AS
    ELSE IF ~isStructBanned(Banned, STy)
    THEN DependencyGraph(T, Banned, setInfoAboutStructure(T, AS, STy), STy + 1)
    ELSE DependencyGraph(T, Banned, AS, STy + 1)

\* DependencyGraph::Node
Node(STy) == [STy |-> STy, PreviousNames |-> {}, ChildSTys |-> {},
              ParentSTys |-> {}]
\* no node ever says it has a child
hasChild_Never(N, n) == FALSE
hasChild(N, n) == N[n].ChildSTys # {}
hasParent(N, n) == N[n].ParentSTys # {}
isContainsStruct(N, n, InSTy) == N[n].STy = InSTy \/ InSTy \in N[n].PreviousNames
substitute(N, n, InSTy) ==
    [N EXCEPT ![n].PreviousNames = @ \cup {N[n].STy}, ![n].STy = InSTy]
\* Node::eraseChild: ok is what its assertion tests
eraseChild(N, n, ChildNode) ==
    [nodes |-> [N EXCEPT ![n].ChildSTys = @ \ {ChildNode}],
     ok |-> ChildNode \in N[n].ChildSTys]

\* the structs the elements of STy are made of (createNode, 653-660)
ChildrenOf(T, STy) ==
    {getArrayFreeTy(T[STy][k]) : k \in DOMAIN T[STy]} \ {IntTy, FloatTy}

\* createNode reaches a struct AllStructs has no record of:
\* getStructComponens fails its assertion
MissingComponents(T, AS) ==
    \E STy \in DOMAIN AS : ~(ChildrenOf(T, STy) \subseteq DOMAIN AS)

\* DependencyGraph::generateGraph: a node per struct of AllStructs, each the
\* child of the structs it is an element of
generateGraph(T, AS) ==
    [STy \in DOMAIN AS |->
        [Node(STy) EXCEPT
            !.ChildSTys = ChildrenOf(T, STy),
            !.ParentSTys = {p \in DOMAIN AS : STy \in ChildrenOf(T, p)}]]

\* the graph: the struct types, AllStructs and the nodes
Graph(T, AS, N) == [types |-> T, AllStructs |-> AS, nodes |-> N]

\* the splitting loop of processNode over the base types left: a new plain
\* struct per base type
RECURSIVE SplitStruct(_, _, _, _)
SplitStruct(G, OldSTy, bases, Generated) ==
    IF bases = <<>> THEN [graph |-> G, GeneratedStructs |-> Generated]
    ELSE LET NewPlainStruct == Cardinality(DOMAIN G.types)
             T == AddType(G.types, G.AllStructs[OldSTy][Head(bases)])
         IN SplitStruct(
                Graph(T, setInfoAboutStructure(T, G.AllStructs, NewPlainStruct),
                      G.nodes),
                OldSTy, Tail(bases), Append(Generated, NewPlainStruct))

\* the elements remakeParent gives the struct before splitting, from
\* element k of body on
RECURSIVE NewElements(_, _, _, _, _)
NewElements(N, body, k, SNodeToChange, NewReplaceStructs) ==
    IF k > Len(body) THEN <<>>
    ELSE (IF ~body[k].seq /\ body[k].ty >= 0
             /\ isContainsStruct(N, SNodeToChange, body[k].ty)
          THEN [i \in 1 .. Len(NewReplaceStructs) |->
                    Elem(NewReplaceStructs[i], FALSE)]
          ELSE <<body[k]>>)
         \o NewElements(N, body, k + 1, SNodeToChange, NewReplaceStructs)

\* DependencyGraph::remakeParent
remakeParent(G, SNode, SNodeToChange, NewReplaceStructs) ==
    LET CurrentS == G.nodes[SNode].STy
        BeforeSplitingS == Cardinality(DOMAIN G.types)
        T == AddType(G.types,
                     NewElements(G.nodes, G.types[CurrentS], 1, SNodeToChange,
                                 NewReplaceStructs))
    IN Graph(T, setInfoAboutStructure(T, G.AllStructs, BeforeSplitingS),
             substitute(G.nodes, SNode, BeforeSplitingS))

RECURSIVE RemakeParents(_, _, _, _)
RemakeParents(G, parents, SNode, Generated) ==
    IF parents = <<>> THEN G
    ELSE RemakeParents(remakeParent(G, Head(parents), SNode, Generated),
                       Tail(parents), SNode, Generated)

RECURSIVE EraseFromParents(_, _, _)
EraseFromParents(N, parents, SNode) ==
    IF parents = <<>> THEN [nodes |-> N, ok |-> TRUE]
    ELSE LET r == eraseChild(N, Head(parents), SNode)
             rest == EraseFromParents(r.nodes, Tail(parents), SNode)
         IN [nodes |-> rest.nodes, ok |-> r.ok /\ rest.ok]

\* DependencyGraph::processNode after its loop: the split of a struct that
\* is not plain, the parents remade, the node erased from its parents
processNode(G, SNode) ==
    LET OldSTy == G.nodes[SNode].STy
        parents == SortedSeq(G.nodes[SNode].ParentSTys)
        split == ~isPlain(G.AllStructs, OldSTy)
        s == SplitStruct(G, OldSTy, SortedSeq(DOMAIN G.AllStructs[OldSTy]), <<>>)
        G2 == IF split
              THEN RemakeParents(s.graph, parents, SNode, s.GeneratedStructs)
              ELSE G
        e == EraseFromParents(G2.nodes, parents, SNode)
    IN [graph |-> Graph(G2.types, G2.AllStructs, e.nodes), split |-> split,
        ok |-> e.ok]

(***************************************************************************)
(* GraphColor: the signature of the address register                       *)
(* (GraphColor.h:742-762, 808-815).  spAddrRegSig has one entry per         *)
(* sub-register of a0; a fill is mov (N) a0.i AddrSpillLoc(K).S, a spill is *)
(* mov (N) AddrSpillLoc(K) a0.i.                                            *)
(***************************************************************************)
\* words a home location is taken to have
AddrSpillLocWords == 16
NoWord == 0 - 1

clearSpillAddrLocSignature(sig) == [x \in DOMAIN sig |-> 0]

\* the word of AddrSpillLoc(K).S that a fill puts in a0.x, for a fill to a0.i
SpillLocWord(K, S, i, x) == K * AddrSpillLocWords + S + (x - i)

\* updateActiveSpillAddrLocs on a fill
updateActiveSpillAddrLocs(sig, N, i, K, S) ==
    [x \in DOMAIN sig |->
        IF i <= x /\ x < i + N THEN SpillLocWord(K, S, i, x) ELSE sig[x]]

\* updateActiveSpillAddrLocs on a spill: the entries that hold
\* AddrSpillLoc(K) are cleared
updateActiveSpillAddrLocs_Spill(sig, K) ==
    [x \in DOMAIN sig |->
        IF sig[x] \div AddrSpillLocWords = K THEN 0 ELSE sig[x]]

\* pruneActiveSpillAddrLocs: a write to a0.[i, i+N) that is not a fill
pruneActiveSpillAddrLocs(sig, N, i) ==
    [x \in DOMAIN sig |-> IF i <= x /\ x < i + N THEN 0 ELSE sig[x]]

\* redundantAddrFill: a0.[i, i+N) is recorded to hold the words of the fill
redundantAddrFill(sig, N, i, K, S) ==
    \A x \in DOMAIN sig :
        (i <= x /\ x < i + N) => sig[x] = SpillLocWord(K, S, i, x)

NoFillInst == [op |-> "none", N |-> 0, i |-> 0, K |-> 0, S |-> 0,
               removed |-> FALSE, active |-> <<>>]

\* no alignment recorded, no second object, no module, no address register
NoFill == spAddrRegSig = <<>> /\ activeFills = <<>> /\ fillLog = NoFillInst
NoAlign == varInfo = <<>> /\ dclAlign = <<>> /\ alignLog = NoAlignCall
NoTwin == intfTwin = Interference(0, 0)
NoSplit ==
    /\ types = <<>>
    /\ allocas = {}
    /\ BannedStructs = {}
    /\ AllStructs = <<>>
    /\ nodes = <<>>
    /\ Heads = {}
    /\ headsLeft = {}
    /\ callStack = <<>>
    /\ splitPc = "none"
    /\ processed = <<>>
    /\ splitLog = {}
    /\ eraseFailed = FALSE

\* the components beside the pipeline as constructed
InitSide ==
    /\ selectedRF = G4_UndefinedRF
    /\ varIdx = EmptyMap
    /\ maxVarIdx = 0
    /\ idPass = NoId
    /\ idLog = NoCall
    /\ assignIdx = 0
    /\ sortedIntervals = <<>>
    /\ sweepIdx = 0
    /\ defaultMaskQueue = {}
    /\ nonDefaultMaskQueue = {}
    /\ delivered = [default |-> <<>>, nonDefault |-> <<>>]
    /\ NoAlign
    /\ NoTwin
    /\ NoSplit
    /\ NoFill

\* the pipeline and the components modelled with it, idle: no kernel, no
\* live range, nothing allocated
InitIdle ==
    /\ insts = <<>>
    /\ liveOut = {}
    /\ decls = <<>>
    /\ numRegTotal = MaxRegs
    /\ simdSize = 8
    /\ numEltPerGRF = 8
    /\ maxRAIterations = MaxRAIterations
    /\ numReservedGRFsFailSafe = NOT_FOUND
    /\ failSafeRAIteration = FALSE
    /\ varMasks = <<>>
    /\ level = 0
    /\ iterNo = 0
    /\ fbdRegs = generateForbiddenTemplates(numRegTotal)
    /\ prevSpillCount = 0
    /\ lrs = <<>>
    /\ totalGRFRegCount = numRegTotal
    /\ failSafeIter = FALSE
    /\ colorOrder = <<>>
    /\ spilledLRs = <<>>
    /\ result = "none"
    /\ origTempDclId = 0
    /\ tempDclId = 0
    /\ nextTempDclId = 0
    /\ passes = 0
    /\ steps = 0
    /\ prevInsts = <<>>
    /\ lastSpilled = {}
    /\ legalAllocation = FALSE
    /\ firstEdges = {}
    /\ reservedAtStart = numReservedGRFsFailSafe
    /\ edgeSet = {}
    /\ denseAtInit = FALSE
    /\ needIntfUpdate = {}
    /\ prevIterEdges = {}
    /\ allRegistered = TRUE
    /\ selectedRF = G4_UndefinedRF
    /\ varIdx = EmptyMap
    /\ maxVarIdx = 0
    /\ idPass = NoId
    /\ idLog = NoCall
    /\ assignIdx = 0
    /\ sortedIntervals = <<>>
    /\ sweepIdx = 0
    /\ defaultMaskQueue = {}
    /\ nonDefaultMaskQueue = {}
    /\ delivered = [default |-> <<>>, nonDefault |-> <<>>]

\* GlobalRA, GraphColor and SpillManager before the first iteration
InitRA ==
    /\ pc = "setup"
    /\ iterNo = 0
    /\ fbdRegs = generateForbiddenTemplates(numRegTotal)
    /\ prevSpillCount = 0
    /\ lrs = <<>>
    /\ totalGRFRegCount = numRegTotal
    /\ failSafeIter = FALSE
    /\ colorOrder = <<>>
    /\ spilledLRs = <<>>
    /\ result = "none"
    /\ intf = InterferenceInit(0, DenseMatrixLimit)
    /\ origTempDclId = 0
    /\ tempDclId = 0
    /\ nextTempDclId = 0
    /\ passes = 0
    /\ steps = 0
    /\ prevInsts = <<>>
    /\ lastSpilled = {}
    /\ legalAllocation = FALSE
    /\ firstEdges = {}
    /\ reservedAtStart = numReservedGRFsFailSafe
    /\ lastOp = NoOp
    /\ edgeSet = {}
    /\ denseAtInit = FALSE
    /\ needIntfUpdate = {}
    /\ prevIterEdges = {}
    /\ allRegistered = TRUE
    /\ InitSide

\* every declare of the kernel has the default mask of 32-bit elements and
\* incremental recomputation is off
InitCommon ==
    /\ numRegTotal \in 2..MaxRegs
    /\ \E c \in FailSafeConfigs :
          /\ simdSize = c[1]
          /\ numReservedGRFsFailSafe = setNumReservedGRFsFailSafe(c[2])
    /\ numEltPerGRF = 8
    /\ varMasks = [d \in 1 .. NumVars |-> Default32Bit]
    /\ level = 0
    /\ InitRA

Init ==
    /\ insts \in InitInsts
    /\ liveOut \in SUBSET Vars
    /\ decls \in {[d \in 1..NumVars |-> IF d = 1 THEN first ELSE PlainDcl] :
                    first \in {PlainDcl, WideDcl}}
    /\ maxRAIterations \in (MaxRAIterations - 1) .. MaxRAIterations
    /\ failSafeRAIteration = FALSE
    /\ InitCommon

\* a live range that no register satisfies on its own: its alignment and its
\* forbidden registers leave no start position within the budget
ForbiddenConflict(l, F, total) ==
    \E id \in LRIds(l) : FitsAlone(LR(l, id), F, total) = {}

\* the iteration starts: the live ranges are created, the GraphColor object is
\* constructed (a fail-safe iteration reserves its GRFs and colors with that
\* many fewer) and the interference matrix is allocated
Setup ==
    /\ pc = "setup"
    /\ LET l == createLiveRanges(decls, insts)
           reserved == getNumReservedGRFs(numReservedGRFsFailSafe, simdSize,
                                          numEltPerGRF)
           total == IF failSafeRAIteration
                    THEN setTotalGRFRegCount(numRegTotal - reserved)
                    ELSE numRegTotal
       IN /\ lrs' = l
          /\ totalGRFRegCount' = total
          /\ failSafeIter' = markFailSafeIter(failSafeRAIteration)
          /\ numReservedGRFsFailSafe' =
                IF failSafeRAIteration THEN reserved ELSE numReservedGRFsFailSafe
          /\ intf' = InterferenceInit(Len(l), intf.denseMatrixLimit)
          /\ pc' = IF failSafeRAIteration /\ reserved >= numRegTotal
                   THEN "fatal_failsafe"
                   ELSE IF ForbiddenConflict(l, fbdRegs, total)
                   THEN "fatal_forbidden" ELSE "build"
    /\ colorOrder' = <<>>
    /\ spilledLRs' = <<>>
    /\ result' = "none"
    /\ UNCHANGED <<kernelVars, iterNo, maxRAIterations, fbdRegs,
                   failSafeRAIteration, prevSpillCount, spillVars, bookVars>>
    /\ UNCHANGED <<matVars, varMasks, incVars, sideVars>>
    /\ steps' = steps + 1

\* some assignment of registers satisfies every live range and every edge
ExistsColoring(l, I, F, total) ==
    \E f \in [LRIds(l) -> 0 .. (total - 1)] :
        \A id \in LRIds(l) :
            /\ f[id] \in FitsAlone(LR(l, id), F, total)
            /\ \A n \in Neighbors(l, I, id) :
                  RegRange(f[id], LR(l, id).numRegNeeded)
                    \cap RegRange(f[n], LR(l, n).numRegNeeded) = {}

\* the edges of the graph, as sets of two live range ids
EdgesOf(l, I) ==
    {{a, b} : <<a, b>> \in {e \in LRIds(l) \X LRIds(l) :
                              e[1] < e[2] /\ interfereBetween(I, e[1], e[2])}}

\* the interference graph is computed; legalAllocation and firstEdges record
\* whether the kernel as it was given has an allocation within the register
\* budget, and its graph
Build ==
    /\ pc = "build"
    /\ varMasks' = markNonDefaultMaskDef(varMasks, insts, decls)
    /\ LET incremental == isEnabled(level) /\ iterNo > 0
           built == IF incremental
                    THEN computeIncremental(intf, lrs, insts, liveOut, varMasks',
                                            prevIterEdges, needIntfUpdate)
                    ELSE computeInterference(intf, lrs, insts, liveOut,
                                             varMasks')
           passed == (incremental /\ isEnabledWithVerification(level)) =>
                        verify(lrs, built,
                               computeInterference(intf, lrs, insts, liveOut,
                                                   varMasks'))
       IN /\ intf' = built
          /\ pc' = IF passed THEN "color" ELSE "fatal_verify"
          /\ prevIterEdges' = IF isEnabled(level) THEN DclEdges(lrs, built)
                              ELSE prevIterEdges
          /\ needIntfUpdate' = IF isEnabled(level)
                               THEN clearCandidates(needIntfUpdate)
                               ELSE needIntfUpdate
    /\ UNCHANGED <<level, allRegistered>>
    /\ legalAllocation' =
          IF iterNo = 0 THEN ExistsColoring(lrs, intf', fbdRegs, numRegTotal)
          ELSE legalAllocation
    /\ firstEdges' = IF iterNo = 0 THEN EdgesOf(lrs, intf') ELSE firstEdges
    /\ UNCHANGED <<kernelVars, iterNo, maxRAIterations, numReservedGRFsFailSafe,
                   fbdRegs, failSafeRAIteration, prevSpillCount, gcVars,
                   spillVars, passes, prevInsts, lastSpilled, reservedAtStart>>
    /\ UNCHANGED <<matVars, sideVars>>
    /\ steps' = steps + 1

Color ==
    /\ pc = "color"
    /\ LET r == regAlloc(lrs, intf, fbdRegs, totalGRFRegCount)
       IN /\ lrs' = r.lrs
          /\ colorOrder' = r.colorOrder
          /\ spilledLRs' = r.spilledLRs
          /\ result' = IF r.success THEN "success" ELSE "spill"
          /\ pc' = IF r.success THEN "done" ELSE "spill"
    /\ passes' = passes + 1
    /\ steps' = steps + 1
    /\ UNCHANGED <<kernelVars, iterNo, maxRAIterations, numReservedGRFsFailSafe,
                   fbdRegs, failSafeRAIteration, prevSpillCount, totalGRFRegCount,
                   failSafeIter, intf, spillVars, prevInsts, lastSpilled,
                   legalAllocation, firstEdges, reservedAtStart>>
    /\ UNCHANGED <<matVars, varMasks, incVars, sideVars>>

\* the declares of the spilled live ranges
SpilledDcls == {LR(lrs, spilledLRs[k]).dcl : k \in 1..Len(spilledLRs)}

\* the spill count did not go down since the previous iteration
NotDecreasing == iterNo > 0 /\ Len(spilledLRs) >= prevSpillCount

\* a spilled declare is wider than the GRFs a fail-safe iteration reserved
TooWide ==
    /\ failSafeIter
    /\ \E d \in SpilledDcls : decls[d + 1].numRows > numRegTotal - totalGRFRegCount

\* spill code is inserted and the next iteration starts, in fail-safe mode
\* once the spill count did not decrease; in a fail-safe iteration the
\* temporaries are bound to the reserved GRFs, and allocation is abandoned
\* when one does not fit them.  The loop ends at the iteration cap.
Spill ==
    /\ pc = "spill"
    /\ LET sm == SpillManagerInit(nextTempDclId)
           reg == IF failSafeIter THEN totalGRFRegCount ELSE NoReg
           st == insertSpillCode(insts, decls, sm, SpilledDcls, reg)
           sm1 == [sm EXCEPT !.tempDclId = st.tempDclId]
       IN /\ insts' = st.insts
          /\ decls' = st.decls
          /\ liveOut' = liveOut \ SpilledDcls
          /\ origTempDclId' = sm1.origTempDclId
          /\ tempDclId' = sm1.tempDclId
          /\ nextTempDclId' = getNextTempDclId(sm1)
          /\ prevSpillCount' = Len(spilledLRs)
          /\ iterNo' = setIterNo(getIterNo + 1)
          /\ failSafeRAIteration' = (failSafeRAIteration \/ NotDecreasing)
          /\ pc' = IF TooWide THEN "fatal_failsafe"
                   ELSE IF iterNo' < maxRAIterations THEN "setup"
                   ELSE "fatal_spill"
          /\ prevInsts' = insts
          /\ steps' = steps + 1
          /\ lastSpilled' = SpilledDcls
          /\ LET created == Len(decls) .. (Len(st.decls) - 1)
             IN \E skipped \in {NoDcl} \cup
                                (IF isEnabled(level) THEN created ELSE {}) :
                   /\ needIntfUpdate' =
                         IF isEnabled(level)
                         THEN addNewRAVariables(
                                  markAllForIntfUpdate(needIntfUpdate,
                                                       SpilledDcls),
                                  created \ {skipped})
                         ELSE needIntfUpdate
                   /\ allRegistered' = (allRegistered /\ skipped = NoDcl)
    /\ UNCHANGED <<numRegTotal, simdSize, numEltPerGRF, maxRAIterations,
                   numReservedGRFsFailSafe, fbdRegs, gcVars, intf, passes,
                   legalAllocation, firstEdges, reservedAtStart>>
    /\ UNCHANGED <<matVars, varMasks, level, prevIterEdges, sideVars>>

Next == Setup \/ Build \/ Color \/ Spill

Spec == Init /\ [][Next]_vars

(***************************************************************************)
(* One coloring pass over any interference graph: the live ranges of        *)
(* declares of every kind, the edges recorded by checkAndSetIntf from its   *)
(* callers in any order, in a regular or a fail-safe iteration.             *)
(***************************************************************************)
\* the kinds of declare: one row, two rows at an even register, the return
\* ip, the spill temporary of an EOT source, and declares kept off the last
\* GRF with a bank hint
ColorDcls ==
    {PlainDcl, WideDcl,
     Dcl(1, TRUE, FALSE, FBD_NUM, FALSE, BANK_CONFLICT_NONE),
     Dcl(1, FALSE, TRUE, FBD_EOT, FALSE, BANK_CONFLICT_NONE),
     Dcl(1, FALSE, FALSE, FBD_LASTGRF, FALSE, BANK_CONFLICT_FIRST_HALF_ODD),
     Dcl(1, FALSE, FALSE, FBD_EOTLASTGRF, FALSE, BANK_CONFLICT_FIRST_HALF_EVEN)}

InitColor ==
    /\ insts = <<>>
    /\ liveOut = {}
    /\ decls \in [1..NumVars -> ColorDcls]
    /\ maxRAIterations = MaxRAIterations
    /\ failSafeRAIteration \in BOOLEAN
    /\ InitCommon

\* a caller records that v1 and v2 interfere
AddEdge ==
    /\ pc = "build"
    /\ \E v1, v2 \in LRIds(lrs) : intf' = checkAndSetIntf(intf, v1, v2)
    /\ UNCHANGED <<kernelVars, graVars, gcVars, spillVars, ghostVars, matVars,
                   varMasks, incVars, sideVars>>

\* the graph is complete
EndBuild ==
    /\ pc = "build"
    /\ pc' = "color"
    /\ UNCHANGED <<kernelVars, iterNo, maxRAIterations, numReservedGRFsFailSafe,
                   fbdRegs, failSafeRAIteration, prevSpillCount, gcVars, intf,
                   spillVars, ghostVars, matVars, varMasks, incVars, sideVars>>

NextColor == Setup \/ AddEdge \/ EndBuild \/ Color

SpecColor == InitColor /\ [][NextColor]_vars

(***************************************************************************)
(* The coloring pass step by step: the loop of determineColorOrdering       *)
(* removes one live range at a time, the loop of assignColors tries one     *)
(* entry of colorOrder at a time, from the last removed to the first.       *)
(***************************************************************************)
\* everything but lrs, colorOrder, pc and assignIdx
passRest == <<kernelVars, iterNo, maxRAIterations, numReservedGRFsFailSafe,
              fbdRegs, failSafeRAIteration, prevSpillCount, totalGRFRegCount,
              failSafeIter, spilledLRs, result, intf, spillVars, ghostVars,
              matVars, varMasks, incVars, idVars, augVars, lateVars>>

AllRemoved(l) == \A id \in LRIds(l) : ~getActive(LR(l, id))

\* computeDegreeForGRF: every live range is in the graph with its degree
StartOrdering ==
    /\ pc = "color"
    /\ lrs' = computeDegreeForGRF(lrs, intf)
    /\ colorOrder' = <<>>
    /\ pc' = IF Len(lrs) = 0 THEN "assign" ELSE "order"
    /\ assignIdx' = 0
    /\ UNCHANGED passRest

\* one iteration of the loop of determineColorOrdering
RemoveOne ==
    /\ pc = "order"
    /\ LET st == RemoveStep([lrs |-> lrs, colorOrder |-> colorOrder], intf,
                            totalGRFRegCount)
       IN /\ lrs' = st.lrs
          /\ colorOrder' = st.colorOrder
          /\ pc' = IF AllRemoved(st.lrs) THEN "assign" ELSE "order"
          /\ assignIdx' = IF AllRemoved(st.lrs) THEN Len(st.colorOrder) ELSE 0
    /\ UNCHANGED passRest

\* one iteration of the loop of assignColors
AssignOne ==
    /\ pc = "assign"
    /\ assignIdx > 0
    /\ lrs' = AssignColor(lrs, intf, fbdRegs, totalGRFRegCount,
                          colorOrder[assignIdx])
    /\ assignIdx' = assignIdx - 1
    /\ UNCHANGED <<pc, colorOrder, passRest>>

\* the pass ends: the spilled live ranges are collected
EndPass ==
    /\ pc = "assign"
    /\ assignIdx = 0
    /\ LET spilled == SpilledFrom(lrs, colorOrder, Len(colorOrder))
       IN /\ spilledLRs' = spilled
          /\ result' = IF requireSpillCode(spilled) THEN "spill" ELSE "success"
          /\ pc' = IF requireSpillCode(spilled) THEN "spill" ELSE "done"
    /\ passes' = passes + 1
    /\ steps' = steps + 1
    /\ UNCHANGED <<kernelVars, iterNo, maxRAIterations, numReservedGRFsFailSafe,
                   fbdRegs, failSafeRAIteration, prevSpillCount, lrs,
                   totalGRFRegCount, failSafeIter, colorOrder, intf, spillVars,
                   prevInsts, lastSpilled, legalAllocation, firstEdges,
                   reservedAtStart, matVars, varMasks, incVars, sideVars>>

NextPass == Setup \/ AddEdge \/ EndBuild \/ StartOrdering \/ RemoveOne
               \/ AssignOne \/ EndPass

\* the kinds of declare of a pass: one row, two rows at an even register,
\* the return ip, and the spill temporary of an EOT source
PassDcls ==
    {PlainDcl, WideDcl,
     Dcl(1, TRUE, FALSE, FBD_NUM, FALSE, BANK_CONFLICT_NONE),
     Dcl(1, FALSE, TRUE, FBD_EOT, FALSE, BANK_CONFLICT_NONE)}

\* the kernels of Init, whose reference counts give the spill costs, with
\* declares of every kind of PassDcls
InitPass ==
    /\ insts \in InitInsts
    /\ liveOut = {}
    /\ decls \in [1..NumVars -> PassDcls]
    /\ maxRAIterations = MaxRAIterations
    /\ failSafeRAIteration = FALSE
    /\ numRegTotal \in 2..MaxRegs
    /\ simdSize = 8
    /\ numReservedGRFsFailSafe = setNumReservedGRFsFailSafe(NOT_FOUND)
    /\ numEltPerGRF = 8
    /\ varMasks = [d \in 1 .. NumVars |-> Default32Bit]
    /\ level = 0
    /\ InitRA

SpecPass == InitPass /\ [][NextPass]_vars

\* the steps of the pass end in the state GraphColor::regAlloc computes
PassIsRegAlloc ==
    pc \in {"done", "spill"} =>
        LET r == regAlloc(createLiveRanges(decls, insts), intf, fbdRegs,
                          totalGRFRegCount)
        IN /\ r.lrs = lrs
           /\ r.colorOrder = colorOrder
           /\ r.spilledLRs = spilledLRs
           /\ r.success = (result = "success")

(***************************************************************************)
(* The retry loop with incremental recomputation on (level 1) and with      *)
(* verification (level 2).  The Spill Manager registers the declares it     *)
(* created and removed; a run in which it leaves one out is part of the     *)
(* behaviours, and allRegistered tells the two apart.                       *)
(***************************************************************************)
IncMasks == {Default32Bit, NonDefault}

InitInc ==
    /\ insts \in InitInsts
    /\ liveOut \in {{}, Vars}
    /\ decls = [d \in 1..NumVars |-> PlainDcl]
    /\ maxRAIterations = MaxRAIterations - 1
    /\ failSafeRAIteration = FALSE
    /\ numRegTotal \in {1, 2}
    /\ simdSize = 8
    /\ numReservedGRFsFailSafe = setNumReservedGRFsFailSafe(NOT_FOUND)
    /\ numEltPerGRF = 8
    /\ varMasks \in [1 .. NumVars -> IncMasks]
    /\ level \in {1, 2}
    /\ InitRA

SpecInc == InitInc /\ [][Next]_vars

(***************************************************************************)
(* Augmentation under every mix of masks: the kernels of Init with a mask   *)
(* drawn for each declare and a register file of one register or of         *)
(* MaxRegs.  The masks are the ones a GRF declare is classified with        *)
(* (a predicate declare has DefaultPredicateMask and is not a GRF live      *)
(* range).                                                                  *)
(***************************************************************************)
AugMasks == {Default16Bit, Default32Bit, NonDefault}

InitAug ==
    /\ insts \in InitInsts
    /\ liveOut \in {{}, Vars}
    /\ decls = [d \in 1..NumVars |-> PlainDcl]
    /\ maxRAIterations = MaxRAIterations - 1
    /\ failSafeRAIteration = FALSE
    /\ numRegTotal \in {1, MaxRegs}
    /\ simdSize = 8
    /\ numReservedGRFsFailSafe = setNumReservedGRFsFailSafe(NOT_FOUND)
    /\ numEltPerGRF = 8
    /\ varMasks \in [1 .. NumVars -> AugMasks]
    /\ level = 0
    /\ InitRA

SpecAug == InitAug /\ [][Next]_vars

(***************************************************************************)
(* The sweep of augmentation step by step (GraphColor.h:291-302, 324-326,   *)
(* 361-377): the intervals are taken in the order of sortedIntervals; before *)
(* an interval is compared, the two queues deliver the intervals that ended *)
(* before it starts; then it is compared with every interval still in the   *)
(* queues and pushed onto the queue of its mask.  Intervals the comparator  *)
(* does not tell apart are delivered in either order, and so are intervals  *)
(* of one start in sortedIntervals.                                         *)
(***************************************************************************)
\* the end read as the start
getEndInterval_Start(iv, id) == iv[id].start
\* GlobalRA::getStartInterval / getEndInterval, as instruction numbers
getStartInterval(iv, id) == iv[id].start
getEndInterval(iv, id) == iv[id].end

\* A is delivered after B: by end, then by start
criticalCmpForEndInterval(iv, A, B) ==
    \/ getEndInterval(iv, A) > getEndInterval(iv, B)
    \/ /\ getEndInterval(iv, A) = getEndInterval(iv, B)
       /\ getStartInterval(iv, A) > getStartInterval(iv, B)

\* AugmentPriorityQueue::top: an entry that is after no other
QueueTops(q, iv) ==
    {t \in q : \A x \in q : ~criticalCmpForEndInterval(iv, t, x)}

\* the tops that ended before instruction start
Expirable(q, iv, start) ==
    {t \in QueueTops(q, iv) : getEndInterval(iv, t) < start}

\* the orders std::sort by interval start may leave the live ranges S in
SortedByStart(iv, S) ==
    {p \in [1 .. Cardinality(S) -> S] :
        /\ \A i \in DOMAIN p : \A j \in DOMAIN p : i # j => p[i] # p[j]
        /\ \A i \in DOMAIN p : \A j \in DOMAIN p :
              i < j => getStartInterval(iv, p[i]) <= getStartInterval(iv, p[j])}

Intervals == buildLiveIntervals(lrs, insts)

\* kernels in which two declares can have one interval: an instruction
\* defines any declare and reads at most one, defined or not
SweepInsts ==
    [1..NumVars -> {Inst("op", d, srcs, NoDcl) :
                      d \in Vars, srcs \in {{}} \cup {{v} : v \in Vars}}]

SweepMasks == {Default32Bit, NonDefault}

InitSweep ==
    /\ insts \in SweepInsts
    /\ liveOut = {}
    /\ decls = [d \in 1..NumVars |-> PlainDcl]
    /\ maxRAIterations = MaxRAIterations
    /\ failSafeRAIteration = FALSE
    /\ numRegTotal = MaxRegs
    /\ simdSize = 8
    /\ numReservedGRFsFailSafe = setNumReservedGRFsFailSafe(NOT_FOUND)
    /\ numEltPerGRF = 8
    /\ varMasks \in [1 .. NumVars -> SweepMasks]
    /\ level = 0
    /\ InitRA

\* everything but pc, intf and the variables of the sweep
sweepRest == <<kernelVars, iterNo, maxRAIterations, numReservedGRFsFailSafe,
               fbdRegs, failSafeRAIteration, prevSpillCount, gcVars, spillVars,
               ghostVars, matVars, varMasks, incVars, idVars, assignIdx,
               lateVars>>

\* liveness has given its edges; the intervals are built and sorted
SortLiveIntervals ==
    /\ pc = "build"
    /\ intf' = buildInterferenceWithinBB(intf, lrs, insts, Len(insts),
                                         IdsOf(lrs, liveOut))
    /\ LET referred == {id \in LRIds(lrs) :
                           getEndInterval(Intervals, id)
                             >= getStartInterval(Intervals, id)}
       IN /\ sortedIntervals' \in SortedByStart(Intervals, referred)
          /\ pc' = IF referred = {} THEN "color" ELSE "sweep"
    /\ sweepIdx' = 1
    /\ defaultMaskQueue' = {}
    /\ nonDefaultMaskQueue' = {}
    /\ delivered' = [default |-> <<>>, nonDefault |-> <<>>]
    /\ UNCHANGED sweepRest

NewStart == getStartInterval(Intervals, sortedIntervals[sweepIdx])

\* expireIntervals: a queue delivers an interval that ended before the new
\* one starts
ExpireInterval ==
    /\ pc = "sweep"
    /\ \/ \E t \in Expirable(defaultMaskQueue, Intervals, NewStart) :
             /\ defaultMaskQueue' = defaultMaskQueue \ {t}
             /\ delivered' = [delivered EXCEPT !.default = Append(@, t)]
             /\ UNCHANGED nonDefaultMaskQueue
       \/ \E t \in Expirable(nonDefaultMaskQueue, Intervals, NewStart) :
             /\ nonDefaultMaskQueue' = nonDefaultMaskQueue \ {t}
             /\ delivered' = [delivered EXCEPT !.nonDefault = Append(@, t)]
             /\ UNCHANGED defaultMaskQueue
    /\ UNCHANGED <<pc, intf, sortedIntervals, sweepIdx, sweepRest>>

\* buildSIMDIntfAll: the new interval against every active one, then onto
\* the queue of its mask
CompareAndPush ==
    /\ pc = "sweep"
    /\ Expirable(defaultMaskQueue, Intervals, NewStart) = {}
    /\ Expirable(nonDefaultMaskQueue, Intervals, NewStart) = {}
    /\ LET new == sortedIntervals[sweepIdx]
           mask == getAugmentationMask(varMasks, LR(lrs, new).dcl)
       IN /\ intf' = buildSIMDIntfAll(intf, lrs, varMasks,
                                      defaultMaskQueue \cup nonDefaultMaskQueue,
                                      new)
          /\ IF mask = NonDefault
             THEN /\ nonDefaultMaskQueue' = nonDefaultMaskQueue \cup {new}
                  /\ UNCHANGED defaultMaskQueue
             ELSE /\ defaultMaskQueue' = defaultMaskQueue \cup {new}
                  /\ UNCHANGED nonDefaultMaskQueue
    /\ sweepIdx' = sweepIdx + 1
    /\ pc' = IF sweepIdx = Len(sortedIntervals) THEN "color" ELSE "sweep"
    /\ UNCHANGED <<sortedIntervals, delivered, sweepRest>>

NextSweep == Setup \/ SortLiveIntervals \/ ExpireInterval \/ CompareAndPush

SpecSweep == InitSweep /\ [][NextSweep]_vars

(***************************************************************************)
(* The interference matrix on its own: an object of any size under any      *)
(* limit is constructed, init() allocates it, and its callers set, clear,   *)
(* block-set and query edges in any order until it is destroyed.  The       *)
(* calls name ids at the start of the id range and on both sides of the     *)
(* first word boundary.                                                     *)
(***************************************************************************)
\* numbers of live ranges: none, a few, the smaller limit, and one more than
\* two words hold
IntfSizes == {0, 2, DenseMatrixLimit, BITS_DWORD + 1}
\* configured limits: the smaller one, and one above every size
IntfLimits == {DenseMatrixLimit, 2 * BITS_DWORD}

\* the ids the callers name
ProbeIds(I) == {v \in {0, 1, BITS_DWORD - 1, BITS_DWORD} : v < I.maxId}

InitIntf ==
    /\ insts = <<>>
    /\ liveOut = {}
    /\ decls = <<>>
    /\ numRegTotal = MaxRegs
    /\ simdSize = 8
    /\ numEltPerGRF = 8
    /\ pc = "constructed"
    /\ iterNo = 0
    /\ maxRAIterations = MaxRAIterations
    /\ numReservedGRFsFailSafe = NOT_FOUND
    /\ fbdRegs = generateForbiddenTemplates(numRegTotal)
    /\ failSafeRAIteration = FALSE
    /\ prevSpillCount = 0
    /\ lrs = <<>>
    /\ totalGRFRegCount = numRegTotal
    /\ failSafeIter = FALSE
    /\ colorOrder = <<>>
    /\ spilledLRs = <<>>
    /\ result = "none"
    /\ \E n \in IntfSizes, limit \in IntfLimits : intf = Interference(n, limit)
    /\ origTempDclId = 0
    /\ tempDclId = 0
    /\ nextTempDclId = 0
    /\ passes = 0
    /\ steps = 0
    /\ prevInsts = <<>>
    /\ lastSpilled = {}
    /\ legalAllocation = FALSE
    /\ firstEdges = {}
    /\ reservedAtStart = NOT_FOUND
    /\ lastOp = NoOp
    /\ edgeSet = {}
    /\ denseAtInit = FALSE
    /\ varMasks = <<>>
    /\ level = 0
    /\ needIntfUpdate = {}
    /\ prevIterEdges = {}
    /\ allRegistered = TRUE
    /\ InitSide

\* everything but the matrix and its bookkeeping
restVars == <<kernelVars, iterNo, maxRAIterations, numReservedGRFsFailSafe,
              fbdRegs, failSafeRAIteration, prevSpillCount, gcVars, spillVars,
              ghostVars, varMasks, incVars, sideVars>>

\* init()
IntfInit ==
    /\ pc = "constructed"
    /\ denseAtInit' = useDenseMatrix(intf)
    /\ intf' = init(intf)
    /\ pc' = "live"
    /\ lastOp' = [NoOp EXCEPT !.op = "init"]
    /\ UNCHANGED <<restVars, edgeSet>>

\* checkAndSetIntf(v1, v2), the arguments in any order
SetIntf ==
    /\ pc = "live"
    /\ \E v1, v2 \in ProbeIds(intf) :
          /\ intf' = checkAndSetIntf(intf, v1, v2)
          /\ edgeSet' = edgeSet \cup (IF v1 = v2 THEN {} ELSE {{v1, v2}})
          /\ lastOp' = [op |-> "set", v1 |-> v1, v2 |-> v2, res |-> FALSE]
    /\ UNCHANGED <<restVars, pc, denseAtInit>>

\* safeClearInterference(v1, v2), v1 < v2
ClearIntf ==
    /\ pc = "live"
    /\ \E v1, v2 \in ProbeIds(intf) :
          /\ v1 < v2
          /\ intf' = safeClearInterference(intf, v1, v2)
          /\ edgeSet' = edgeSet \ {{v1, v2}}
          /\ lastOp' = [op |-> "clear", v1 |-> v1, v2 |-> v2, res |-> FALSE]
    /\ UNCHANGED <<restVars, pc, denseAtInit>>

\* setBlockInterferencesOneWay(v1, col, block): some of the named ids above
\* v1 that lie in word col
SetBlock ==
    /\ pc = "live"
    /\ \E v1 \in ProbeIds(intf), col \in 0 .. 1 :
          \E B \in SUBSET {v \in ProbeIds(intf) :
                              v > v1 /\ v \div BITS_DWORD = col} :
              /\ B # {}
              /\ intf' = setBlockInterferencesOneWay(intf, v1, col,
                                                     {v % BITS_DWORD : v \in B})
              /\ edgeSet' = edgeSet \cup {{v1, v} : v \in B}
              /\ lastOp' = [op |-> "block", v1 |-> v1, v2 |-> col, res |-> FALSE]
    /\ UNCHANGED <<restVars, pc, denseAtInit>>

\* interfereBetween(v1, v2)
QueryIntf ==
    /\ pc = "live"
    /\ \E v1, v2 \in ProbeIds(intf) :
          lastOp' = [op |-> "query", v1 |-> v1, v2 |-> v2,
                     res |-> interfereBetween(intf, v1, v2)]
    /\ UNCHANGED <<restVars, pc, intf, edgeSet, denseAtInit>>

\* the destructor
DestroyIntf ==
    /\ pc = "live"
    /\ intf' = destroy(intf)
    /\ pc' = "destroyed"
    /\ lastOp' = [NoOp EXCEPT !.op = "destroy"]
    /\ UNCHANGED <<restVars, edgeSet, denseAtInit>>

NextIntf == IntfInit \/ SetIntf \/ ClearIntf \/ SetBlock \/ QueryIntf \/ DestroyIntf

SpecIntf == InitIntf /\ [][NextIntf]_vars

(***************************************************************************)
(* The capacity of the matrix: objects of sizes on both sides of the limit  *)
(* and of the two places where the size of the dense matrix runs out of 32  *)
(* bits, counted in bytes and counted in words.  init() builds the storage  *)
(* of the objects of at most BuiltSizeLimit ids, which then take calls as   *)
(* above; for the larger ones only the branch init() takes is recorded.     *)
(***************************************************************************)
\* the words whose byte offsets all fit in 32 bits: (UINT_MAX + 1) / 4
MaxWordsByteAddressable == HALF_UINT_MAX \div 2 + 1

\* every byte offset into the dense words of n ids is below 2^32
ByteOffsetsFit(n) ==
    LET r == (n + BITS_DWORD - 1) \div BITS_DWORD
    IN r = 0 \/ n <= MaxWordsByteAddressable \div r

\* every word index into the dense words of n ids is below UINT_MAX
WordIndexesFit(n) ==
    ProductBelowUintMax((n + BITS_DWORD - 1) \div BITS_DWORD, n)

\* the smallest numbers of ids for which the dense matrix runs out of 32-bit
\* byte offsets, and out of 32-bit word indexes
FirstByteOverflow ==
    CHOOSE n \in 1 .. (BITS_DWORD * BITS_DWORD * BITS_DWORD * 16) :
        ~ByteOffsetsFit(n) /\ ByteOffsetsFit(n - 1)
FirstWordOverflow ==
    CHOOSE n \in 1 .. (BITS_DWORD * BITS_DWORD * BITS_DWORD * 16) :
        ~WordIndexesFit(n) /\ WordIndexesFit(n - 1)

BuiltSizeLimit == 2 * BITS_DWORD

CapacitySizes ==
    IntfSizes \cup {FirstByteOverflow - 1, FirstByteOverflow,
                    FirstWordOverflow - 1, FirstWordOverflow}
\* configured limits: the smaller one, one above the sizes built, and one
\* above every size
CapacityLimits == {DenseMatrixLimit, 2 * BITS_DWORD, HALF_UINT_MAX}

InitCapacity ==
    /\ insts = <<>>
    /\ liveOut = {}
    /\ decls = <<>>
    /\ numRegTotal = MaxRegs
    /\ simdSize = 8
    /\ numEltPerGRF = 8
    /\ pc = "constructed"
    /\ iterNo = 0
    /\ maxRAIterations = MaxRAIterations
    /\ numReservedGRFsFailSafe = NOT_FOUND
    /\ fbdRegs = generateForbiddenTemplates(numRegTotal)
    /\ failSafeRAIteration = FALSE
    /\ prevSpillCount = 0
    /\ lrs = <<>>
    /\ totalGRFRegCount = numRegTotal
    /\ failSafeIter = FALSE
    /\ colorOrder = <<>>
    /\ spilledLRs = <<>>
    /\ result = "none"
    /\ \E n \in CapacitySizes, limit \in CapacityLimits :
          intf = Interference(n, limit)
    /\ origTempDclId = 0
    /\ tempDclId = 0
    /\ nextTempDclId = 0
    /\ passes = 0
    /\ steps = 0
    /\ prevInsts = <<>>
    /\ lastSpilled = {}
    /\ legalAllocation = FALSE
    /\ firstEdges = {}
    /\ reservedAtStart = NOT_FOUND
    /\ lastOp = NoOp
    /\ edgeSet = {}
    /\ denseAtInit = FALSE
    /\ varMasks = <<>>
    /\ level = 0
    /\ needIntfUpdate = {}
    /\ prevIterEdges = {}
    /\ allRegistered = TRUE
    /\ InitSide

\* init(): the representation is selected and, for the sizes built, allocated
CapacityInit ==
    /\ pc = "constructed"
    /\ denseAtInit' = useDenseMatrix(intf)
    /\ IF intf.maxId <= BuiltSizeLimit
       THEN intf' = init(intf) /\ pc' = "live"
       ELSE intf' = intf /\ pc' = "selected"
    /\ lastOp' = [NoOp EXCEPT !.op = "init"]
    /\ UNCHANGED <<restVars, edgeSet>>

NextCapacity == CapacityInit \/ SetIntf \/ ClearIntf \/ QueryIntf

SpecCapacity == InitCapacity /\ [][NextCapacity]_vars

(***************************************************************************)
(* The ids of IncrementalRA over the iterations of one kernel.  An          *)
(* iteration asks for the first free id (LivenessAnalysis), gives every     *)
(* declare of the register file the id it had or the next free one, and     *)
(* registers the iteration's register file.                                 *)
(***************************************************************************)
NumIdDcls == 3
IdDcls == 0 .. (NumIdDcls - 1)
\* the register files an iteration asks ids for
IdFiles == {G4_GRF, G4_ADDRESS, G4_GRF + G4_INPUT}

IdObj == IncrementalRAIds(selectedRF, varIdx, maxVarIdx)

SetIdObj(ra) ==
    /\ selectedRF' = ra.selectedRF
    /\ varIdx' = ra.varIdx
    /\ maxVarIdx' = ra.maxVarIdx

InitIds ==
    /\ insts = <<>>
    /\ liveOut = {}
    /\ decls = <<>>
    /\ numRegTotal = MaxRegs
    /\ simdSize = 8
    /\ numEltPerGRF = 8
    /\ maxRAIterations = MaxRAIterations
    /\ numReservedGRFsFailSafe = NOT_FOUND
    /\ failSafeRAIteration = FALSE
    /\ varMasks = <<>>
    /\ level = 1
    /\ InitRA

GetNextVarId ==
    /\ idPass = NoId
    /\ \E RF \in IdFiles :
          LET r == getNextVarId(IdObj, RF)
          IN /\ SetIdObj(r.ra)
             /\ idPass' = r.id
             /\ idLog' = [op |-> "getNextVarId", dcl |-> NoDcl, id |-> r.id,
                          rf |-> RF, before |-> IdObj]
    /\ UNCHANGED <<raVars, assignIdx, augVars, lateVars>>

\* a declare of the register file is given its id
AssignId ==
    /\ idPass # NoId
    /\ \E d \in IdDcls :
          LET prev == getIdFromPrevIter(IdObj, d)
          IN IF prev[1]
             THEN /\ UNCHANGED <<selectedRF, varIdx, maxVarIdx, idPass>>
                  /\ idLog' = [op |-> "reuse", dcl |-> d, id |-> prev[2],
                               rf |-> idLog.rf, before |-> IdObj]
             ELSE /\ SetIdObj(recordVarId(IdObj, d, idPass))
                  /\ idPass' = idPass + 1
                  /\ idLog' = [op |-> "record", dcl |-> d, id |-> idPass,
                               rf |-> idLog.rf, before |-> IdObj]
    /\ UNCHANGED <<raVars, assignIdx, augVars, lateVars>>

RegisterNextIter ==
    /\ idPass # NoId
    /\ \E rf \in {G4_GRF, G4_ADDRESS} :
          /\ BitAnd(rf, idLog.rf) # 0
          /\ SetIdObj(registerNextIter(IdObj, rf))
          /\ idLog' = [op |-> "registerNextIter", dcl |-> NoDcl, id |-> NoId,
                       rf |-> rf, before |-> IdObj]
    /\ idPass' = NoId
    /\ UNCHANGED <<raVars, assignIdx, augVars, lateVars>>

MoveFromHybridToGlobalGRF ==
    /\ idPass = NoId
    /\ SetIdObj(moveFromHybridToGlobalGRF(IdObj))
    /\ idLog' = [op |-> "moveFromHybridToGlobalGRF", dcl |-> NoDcl,
                 id |-> NoId, rf |-> G4_UndefinedRF, before |-> IdObj]
    /\ UNCHANGED <<idPass, raVars, assignIdx, augVars, lateVars>>

NextIds == GetNextVarId \/ AssignId \/ RegisterNextIter
              \/ MoveFromHybridToGlobalGRF

SpecIds == InitIds /\ [][NextIds]_vars

(***************************************************************************)
(* The alignment records under every order of calls.  The alignments drawn  *)
(* are enumerators of G4_SubReg_Align and SixWords, a number of words that  *)
(* neither divides Four_Word nor is divided by it, which is what the        *)
(* assertions of setSubRegAlign guard against.                              *)
(***************************************************************************)
NumAlignDcls == 2
AlignDcls == 0 .. (NumAlignDcls - 1)
SixWords == 6
SubRegAligns == {Align_Any, Even_Word, Four_Word, SixWords}

InitAlign ==
    /\ InitIdle
    /\ pc = "setup"
    /\ intf = InterferenceInit(0, DenseMatrixLimit)
    /\ lastOp = NoOp
    /\ NoTwin
    /\ NoSplit
    /\ NoFill
    \* GlobalRA::GlobalRA: vars.resize(k.Declares.size())
    /\ varInfo = [d \in 1..NumAlignDcls |-> RAVarInfo(Align_Any, FALSE)]
    /\ dclAlign \in [1..NumAlignDcls ->
                        {RAVarInfo(a, e) : a \in SubRegAligns, e \in BOOLEAN}]
    /\ alignLog = NoAlignCall

\* everything but the alignment records
alignRest == <<raVars, idVars, assignIdx, augVars, dclAlign, intfTwin, splitVars,
               fillVars>>

AlignCall(op, d, arg, r) ==
    /\ varInfo' = r.info
    /\ alignLog' = [op |-> op, dcl |-> d, arg |-> arg, before |-> varInfo,
                    failed |-> ~r.ok]
    /\ UNCHANGED alignRest

SetSubRegAlign ==
    /\ ~alignLog.failed
    /\ \E d \in AlignDcls : \E a \in SubRegAligns :
          AlignCall("setSubRegAlign", d, a, setSubRegAlign(varInfo, d, a))

CopyAlignment ==
    /\ ~alignLog.failed
    /\ \E dst \in AlignDcls : \E src \in AlignDcls :
          AlignCall("copyAlignment", dst, getSubRegAlign(varInfo, src),
                    copyAlignment(varInfo, dst, src))

CopyMissingAlignment ==
    /\ ~alignLog.failed
    /\ AlignCall("copyMissingAlignment", NoDcl, Align_Any,
                 copyMissingAlignment(varInfo, dclAlign, 0))

CopyAlignmentOfDeclares ==
    /\ ~alignLog.failed
    /\ AlignCall("copyAlignmentOfDeclares", NoDcl, Align_Any,
                 copyAlignmentOfDeclares(varInfo, dclAlign, 0))

NextAlign == SetSubRegAlign \/ CopyAlignment \/ CopyMissingAlignment
                \/ CopyAlignmentOfDeclares

SpecAlign == InitAlign /\ [][NextAlign]_vars

(***************************************************************************)
(* Two Interference objects of the same maxId, intf under a limit that      *)
(* makes it dense and intfTwin under a limit of 0, which makes it sparse,   *)
(* are given the same calls in any order: safeSetInterference and           *)
(* safeClearInterference with v1 < v2, and setBlockInterferencesOneWay on   *)
(* the words of a row with blocks made of the first and the last bit.       *)
(***************************************************************************)
TwinSizes == {2, BITS_DWORD + 1}
\* rows the block calls name, and bits their blocks are made of
BlockRows(I) == {v \in {0, 1} : v < I.maxId}
BlockBits == {0, BITS_DWORD - 1}

InitTwin ==
    /\ InitIdle
    /\ pc = "constructed"
    /\ lastOp = NoOp
    /\ NoAlign
    /\ NoSplit
    /\ NoFill
    /\ \E n \in TwinSizes :
          /\ intf = Interference(n, 2 * BITS_DWORD)
          /\ intfTwin = Interference(n, 0)

\* everything but the two objects
twinRest == <<kernelVars, iterNo, maxRAIterations, numReservedGRFsFailSafe,
              fbdRegs, failSafeRAIteration, prevSpillCount, gcVars, spillVars,
              ghostVars, edgeSet, denseAtInit, varMasks, incVars, idVars,
              assignIdx, augVars, alignVars, splitVars, fillVars>>

\* init() of both
TwinInit ==
    /\ pc = "constructed"
    /\ intf' = init(intf)
    /\ intfTwin' = init(intfTwin)
    /\ pc' = "live"
    /\ lastOp' = [NoOp EXCEPT !.op = "init"]
    /\ UNCHANGED twinRest

TwinSet ==
    /\ pc = "live"
    /\ \E v1, v2 \in ProbeIds(intf) :
          /\ v1 < v2
          /\ intf' = safeSetInterference(intf, v1, v2)
          /\ intfTwin' = safeSetInterference(intfTwin, v1, v2)
          /\ lastOp' = [op |-> "set", v1 |-> v1, v2 |-> v2, res |-> FALSE]
    /\ UNCHANGED <<twinRest, pc>>

TwinClear ==
    /\ pc = "live"
    /\ \E v1, v2 \in ProbeIds(intf) :
          /\ v1 < v2
          /\ intf' = safeClearInterference(intf, v1, v2)
          /\ intfTwin' = safeClearInterference(intfTwin, v1, v2)
          /\ lastOp' = [op |-> "clear", v1 |-> v1, v2 |-> v2, res |-> FALSE]
    /\ UNCHANGED <<twinRest, pc>>

TwinBlock ==
    /\ pc = "live"
    /\ \E v1 \in BlockRows(intf), col \in 0 .. (rowSize(intf) - 1) :
          \E block \in SUBSET BlockBits :
              /\ intf' = setBlockInterferencesOneWay(intf, v1, col, block)
              /\ intfTwin' = setBlockInterferencesOneWay(intfTwin, v1, col, block)
              /\ lastOp' = [op |-> "block", v1 |-> v1, v2 |-> col, res |-> FALSE]
    /\ UNCHANGED <<twinRest, pc>>

NextTwin == TwinInit \/ TwinSet \/ TwinClear \/ TwinBlock

SpecTwin == InitTwin /\ [][NextTwin]_vars

(***************************************************************************)
(* The struct splitter on every module of NumStructs struct types of        *)
(* NumElements elements each: an element is a scalar or a struct of a       *)
(* higher id (a struct does not contain itself), bare or in an array, and   *)
(* any of the structs may be allocated as an array.  Substituter's          *)
(* constructor runs StructFilter, DependencyGraph and Graph.run();          *)
(* processNode is run call by call, callStack holding the nodes whose       *)
(* calls are open.                                                          *)
(***************************************************************************)
NumStructs == 3
NumElements == 2
Structs == 0 .. (NumStructs - 1)
ElemTypes(STy) ==
    {Elem(IntTy, FALSE), Elem(FloatTy, FALSE)}
        \cup {Elem(c, q) : c \in (STy + 1) .. (NumStructs - 1), q \in BOOLEAN}

InitSplit ==
    /\ InitIdle
    /\ pc = "setup"
    /\ intf = InterferenceInit(0, DenseMatrixLimit)
    /\ lastOp = NoOp
    /\ NoAlign
    /\ NoTwin
    /\ NoFill
    /\ types \in [Structs -> [1 .. NumElements -> ElemTypes(0)]]
    /\ \A STy \in Structs : \A k \in 1 .. NumElements :
          types[STy][k] \in ElemTypes(STy)
    /\ allocas \in SUBSET {Elem(STy, TRUE) : STy \in Structs}
    /\ BannedStructs = {}
    /\ AllStructs = <<>>
    /\ nodes = <<>>
    /\ Heads = {}
    /\ headsLeft = {}
    /\ callStack = <<>>
    /\ splitPc = "module"
    /\ processed = <<>>
    /\ splitLog = {}
    /\ eraseFailed = FALSE

\* everything but the struct splitter
splitRest == <<raVars, idVars, assignIdx, augVars, alignVars, intfTwin, fillVars>>

\* Filter(M)
StructFilterCtor ==
    /\ splitPc = "module"
    /\ BannedStructs' = StructFilter(types, allocas)
    /\ splitPc' = "filtered"
    /\ UNCHANGED <<splitRest, types, allocas, AllStructs, nodes, Heads,
                   headsLeft, callStack, processed, splitLog, eraseFailed>>

\* Graph(M, Filter)
DependencyGraphCtor ==
    /\ splitPc = "filtered"
    /\ AllStructs' = DependencyGraph(types, BannedStructs, <<>>, 0)
    /\ splitPc' = "collected"
    /\ UNCHANGED <<splitRest, types, allocas, BannedStructs, nodes, Heads,
                   headsLeft, callStack, processed, splitLog, eraseFailed>>

\* generateGraph()
GenerateGraph ==
    /\ splitPc = "collected"
    /\ IF MissingComponents(types, AllStructs)
       THEN /\ splitPc' = "assert_failed"
            /\ UNCHANGED <<nodes, Heads, headsLeft, processed>>
       ELSE /\ nodes' = generateGraph(types, AllStructs)
            /\ Heads' = {n \in DOMAIN nodes' : ~hasParent(nodes', n)}
            /\ headsLeft' = Heads'
            /\ processed' = [n \in DOMAIN nodes' |-> 0]
            /\ splitPc' = "recreate"
    /\ UNCHANGED <<splitRest, types, allocas, BannedStructs, AllStructs,
                   callStack, splitLog, eraseFailed>>

\* recreateGraph(): processNode is called for the next head, or the loop
\* over Heads ends
RecreateGraph ==
    /\ splitPc = "recreate"
    /\ callStack = <<>>
    /\ IF headsLeft = {}
       THEN splitPc' = "done" /\ UNCHANGED <<headsLeft, callStack>>
       ELSE \E h \in headsLeft :
               /\ headsLeft' = headsLeft \ {h}
               /\ callStack' = <<h>>
               /\ UNCHANGED splitPc
    /\ UNCHANGED <<splitRest, types, allocas, BannedStructs, AllStructs, nodes,
                   Heads, processed, splitLog, eraseFailed>>

\* processNode, its loop: the call for a child of the node
GoToBottom ==
    /\ splitPc = "recreate"
    /\ callStack # <<>>
    /\ hasChild(nodes, callStack[Len(callStack)])
    /\ \E c \in nodes[callStack[Len(callStack)]].ChildSTys :
          callStack' = Append(callStack, c)
    /\ UNCHANGED <<splitRest, types, allocas, BannedStructs, AllStructs, nodes,
                   Heads, headsLeft, splitPc, processed, splitLog, eraseFailed>>

\* processNode after its loop
ProcessNode ==
    /\ splitPc = "recreate"
    /\ callStack # <<>>
    /\ LET SNode == callStack[Len(callStack)]
           r == processNode(Graph(types, AllStructs, nodes), SNode)
       IN /\ ~hasChild(nodes, SNode)
          /\ types' = r.graph.types
          /\ AllStructs' = r.graph.AllStructs
          /\ nodes' = r.graph.nodes
          /\ processed' = [processed EXCEPT ![SNode] = @ + 1]
          /\ splitLog' = IF r.split
                         THEN splitLog \cup {[node |-> SNode,
                                              children |-> nodes[SNode].ChildSTys]}
                         ELSE splitLog
          /\ eraseFailed' = ~r.ok
          /\ splitPc' = IF r.ok THEN splitPc ELSE "assert_failed"
          /\ callStack' = SubSeq(callStack, 1, Len(callStack) - 1)
    /\ UNCHANGED <<splitRest, allocas, BannedStructs, Heads, headsLeft>>

NextSplit == StructFilterCtor \/ DependencyGraphCtor \/ GenerateGraph
                \/ RecreateGraph \/ GoToBottom \/ ProcessNode

SpecSplit == InitSplit /\ [][NextSplit]_vars

(***************************************************************************)
(* cleanupRedundantARFFillCode over every sequence of fills, spills and     *)
(* other writes to a0: the signature is cleared, then each instruction is   *)
(* looked at in turn; a fill that redundantAddrFill accepts is removed, any *)
(* other fill is recorded.                                                  *)
(***************************************************************************)
NumAddrSubRegs == 2
NumAddrSpillLocs == 2
AddrSubRegs == 0 .. (NumAddrSubRegs - 1)
AddrSpillLocs == 0 .. (NumAddrSpillLocs - 1)
\* the first words of a location
FillOffsets == {0, 1}

InitFill ==
    /\ InitIdle
    /\ pc = "setup"
    /\ intf = InterferenceInit(0, DenseMatrixLimit)
    /\ lastOp = NoOp
    /\ NoAlign
    /\ NoTwin
    /\ NoSplit
    \* GraphColor::GraphColor: one entry per sub-register, zero
    /\ spAddrRegSig = [x \in AddrSubRegs |-> 0]
    /\ activeFills = [x \in AddrSubRegs |-> NoWord]
    /\ fillLog = NoFillInst

fillRest == <<raVars, idVars, assignIdx, augVars, alignVars, intfTwin, splitVars>>

\* the signature is cleared: what a0 holds is no longer known
ClearSignature ==
    /\ spAddrRegSig' = clearSpillAddrLocSignature(spAddrRegSig)
    /\ activeFills' = [x \in AddrSubRegs |-> NoWord]
    /\ fillLog' = [NoFillInst EXCEPT !.op = "clear", !.active = activeFills]
    /\ UNCHANGED fillRest

\* mov (N) a0.i AddrSpillLoc(K).S
AddrFill ==
    \E N \in 1 .. NumAddrSubRegs, i \in AddrSubRegs, K \in AddrSpillLocs,
       S \in FillOffsets :
        /\ i + N <= NumAddrSubRegs
        /\ LET redundant == redundantAddrFill(spAddrRegSig, N, i, K, S)
           IN /\ spAddrRegSig' =
                    IF redundant THEN spAddrRegSig
                    ELSE updateActiveSpillAddrLocs(spAddrRegSig, N, i, K, S)
              /\ activeFills' =
                    IF redundant THEN activeFills
                    ELSE [x \in AddrSubRegs |->
                            IF i <= x /\ x < i + N THEN SpillLocWord(K, S, i, x)
                            ELSE activeFills[x]]
              /\ fillLog' = [op |-> "fill", N |-> N, i |-> i, K |-> K, S |-> S,
                             removed |-> redundant, active |-> activeFills]
        /\ UNCHANGED fillRest

\* mov (N) AddrSpillLoc(K) a0.i
AddrSpill ==
    \E N \in 1 .. NumAddrSubRegs, i \in AddrSubRegs, K \in AddrSpillLocs :
        /\ i + N <= NumAddrSubRegs
        /\ spAddrRegSig' = updateActiveSpillAddrLocs_Spill(spAddrRegSig, K)
        /\ activeFills' =
              [x \in AddrSubRegs |->
                  IF activeFills[x] # NoWord
                     /\ activeFills[x] \div AddrSpillLocWords = K
                  THEN NoWord ELSE activeFills[x]]
        /\ fillLog' = [op |-> "spill", N |-> N, i |-> i, K |-> K, S |-> 0,
                       removed |-> FALSE, active |-> activeFills]
        /\ UNCHANGED fillRest

\* a write to a0.[i, i+N) that is not a fill
AddrWrite ==
    \E N \in 1 .. NumAddrSubRegs, i \in AddrSubRegs :
        /\ i + N <= NumAddrSubRegs
        /\ spAddrRegSig' = pruneActiveSpillAddrLocs(spAddrRegSig, N, i)
        /\ activeFills' =
              [x \in AddrSubRegs |->
                  IF i <= x /\ x < i + N THEN NoWord ELSE activeFills[x]]
        /\ fillLog' = [op |-> "write", N |-> N, i |-> i, K |-> 0, S |-> 0,
                       removed |-> FALSE, active |-> activeFills]
        /\ UNCHANGED fillRest

NextFill == ClearSignature \/ AddrFill \/ AddrSpill \/ AddrWrite

SpecFill == InitFill /\ [][NextFill]_vars

(***************************************************************************)
(* Properties.                                                              *)
(***************************************************************************)
\* the storage a live range holds: its registers, or its spill slot
Storage(lr) ==
    IF lr.spilled THEN {<<"slot", lr.dcl>>}
    ELSE IF lr.phyReg = NoReg THEN {}
    ELSE {<<"reg", r>> : r \in lr.phyReg .. (lr.phyReg + lr.numRegNeeded - 1)}

\* C1: two live ranges with a recorded interference edge never hold
\* overlapping storage, registers or spill slot, in any coloring produced
C1_InterferingStorageDisjoint ==
    \A a, b \in LRIds(lrs) :
        interfereBetween(intf, a, b) =>
            Storage(LR(lrs, a)) \cap Storage(LR(lrs, b)) = {}

\* a coloring pass has placed a two-row live range right below a neighbour
C1_Witness ==
    /\ pc \in {"done", "spill"}
    /\ \E a, b \in LRIds(lrs) :
          /\ interfereBetween(intf, a, b)
          /\ LR(lrs, a).numRegNeeded = 2
          /\ LR(lrs, a).phyReg # NoReg
          /\ LR(lrs, b).phyReg = LR(lrs, a).phyReg + 2

\* the registers of a colored live range
RegsHeld(lr) == lr.phyReg .. (lr.phyReg + lr.numRegNeeded - 1)

\* the registers the forbidden kind of a live range rules out
ForbiddenOf(lr) ==
    IF lr.forbiddenType = FBD_NUM THEN {} ELSE fbdRegs[lr.forbiddenType]

\* C2: no live range is assigned a register of its forbidden set
C2_NoForbiddenRegister ==
    \A id \in LRIds(lrs) :
        LR(lrs, id).phyReg # NoReg =>
            RegsHeld(LR(lrs, id)) \cap ForbiddenOf(LR(lrs, id)) = {}

\* a live range whose forbidden set holds register 0 was colored above it
C2_Witness ==
    /\ pc \in {"done", "spill"}
    /\ \E id \in LRIds(lrs) :
          /\ 0 \in ForbiddenOf(LR(lrs, id))
          /\ LR(lrs, id).phyReg # NoReg
          /\ LR(lrs, id).phyReg > 0

\* the registers of the file a pass may hand out: all of them, or in a
\* fail-safe iteration all but the reserved ones
RegisterBudget ==
    IF failSafeIter THEN numRegTotal - numReservedGRFsFailSafe ELSE numRegTotal

\* C3: after a pass every live range not flagged as spilled has a color, and
\* the color is at most the register count minus the footprint, the count
\* being the reduced one in a fail-safe iteration
C3_ColorWithinBudget ==
    \A id \in LRIds(lrs) :
        /\ (pc \in {"done", "spill"} /\ ~LR(lrs, id).spilled) =>
              LR(lrs, id).phyReg # NoReg
        /\ LR(lrs, id).phyReg # NoReg =>
              /\ LR(lrs, id).phyReg >= 0
              /\ LR(lrs, id).phyReg <= RegisterBudget - LR(lrs, id).numRegNeeded

\* a fail-safe pass colored a two-row live range at the top of the reduced
\* budget
C3_Witness ==
    /\ pc \in {"done", "spill"}
    /\ failSafeIter
    /\ \E id \in LRIds(lrs) :
          /\ LR(lrs, id).numRegNeeded = 2
          /\ LR(lrs, id).phyReg # NoReg
          /\ LR(lrs, id).phyReg = RegisterBudget - 2

\* the start registers the budget, the alignment and the forbidden set leave a
\* live range
AllowedStarts(lr) ==
    {c \in 0 .. (RegisterBudget - lr.numRegNeeded) :
        /\ lr.isEvenAlign => c % 2 = 0
        /\ (c .. (c + lr.numRegNeeded - 1)) \cap ForbiddenOf(lr) = {}}

\* no live range has been ordered, colored or spilled
NothingColored ==
    /\ colorOrder = <<>>
    /\ spilledLRs = <<>>
    /\ \A id \in LRIds(lrs) : LR(lrs, id).phyReg = NoReg /\ ~LR(lrs, id).spilled

\* a must-not-spill live range whose forbidden set covers every available
\* color stops allocation at setup, before anything is colored
AbortsAtSetup ==
    /\ (\E id \in LRIds(lrs) :
            LR(lrs, id).isInfiniteCost /\ AllowedStarts(LR(lrs, id)) = {})
          => pc \in {"setup", "fatal_forbidden", "fatal_failsafe"}
    /\ pc = "fatal_forbidden" => NothingColored

ColoredLRs == {id \in LRIds(lrs) : LR(lrs, id).phyReg # NoReg /\ ~LR(lrs, id).spilled}
MarkedSpilled == {id \in LRIds(lrs) : LR(lrs, id).spilled}

\* C5: a coloring pass returns success if and only if every live range
\* reached Colored; otherwise the spilled list handed to the Spill Manager is
\* non-empty and holds exactly the live ranges the pass marked Spilled
C5_SuccessIffAllColored ==
    pc \in {"done", "spill"} =>
        /\ result \in {"success", "spill"}
        /\ (result = "success") <=> (ColoredLRs = LRIds(lrs))
        /\ (result = "success") <=> (pc = "done")
        /\ result = "success" => spilledLRs = <<>>
        /\ result = "spill" =>
              /\ spilledLRs # <<>>
              /\ SeqToSet(spilledLRs) = MarkedSpilled
              /\ Len(spilledLRs) = Cardinality(MarkedSpilled)

\* a pass colored some live ranges and marked two Spilled
C5_Witness ==
    /\ pc = "spill"
    /\ result = "spill"
    /\ Cardinality(MarkedSpilled) = 2
    /\ ColoredLRs # {}

\* the ways allocation of a kernel is abandoned
FatalStates == {"fatal_spill", "fatal_failsafe", "fatal_forbidden"}

\* with a legal allocation of the kernel as given, allocation is never
\* abandoned and ends with an empty spilled set before the iteration cap
ConvergesWhenLegal ==
    /\ legalAllocation => pc \notin FatalStates
    /\ pc = "done" => (spilledLRs = <<>> /\ iterNo < maxRAIterations)

\* the spilled set of an iteration is no larger than that of the one before
SpillSetNotLarger ==
    (pc = "spill" /\ iterNo > 0) => Len(spilledLRs) <= prevSpillCount

StepsLeft ==
    IF pc \in FatalStates \cup {"done"} THEN 0
    ELSE 4 * (maxRAIterations - iterNo - 1)
         + (CASE pc = "setup" -> 4 [] pc = "build" -> 3 [] pc = "color" -> 2
              [] OTHER -> 1)

\* C7: the retry loop terminates (the steps taken and the steps left never
\* add up to more than four for each iteration allowed): the iteration number
\* never exceeds the configured maximum, no pass runs once it is reached, and
\* reaching it without a complete coloring is a fatal failure
C7_RetryLoopTerminates ==
    /\ iterNo <= maxRAIterations
    /\ passes <= maxRAIterations
    /\ steps + StepsLeft <= 4 * maxRAIterations
    /\ pc \in {"setup", "build", "color", "spill"} => iterNo < maxRAIterations
    /\ iterNo = maxRAIterations => pc \in {"fatal_spill", "fatal_failsafe"}
    /\ pc = "fatal_spill" => (iterNo = maxRAIterations /\ spilledLRs # <<>>)

\* the cap was reached with live ranges still spilled
C7_Witness ==
    /\ pc = "fatal_spill"
    /\ iterNo = maxRAIterations
    /\ passes = maxRAIterations

\* the emergency budget: the count set beforehand, else 1 GRF when the SIMD
\* size is the number of dwords of a GRF and 2 otherwise
EmergencyBudget ==
    IF reservedAtStart # NOT_FOUND THEN reservedAtStart
    ELSE IF simdSize = numEltPerGRF THEN 1 ELSE 2

\* an iteration's spill count is not strictly below the previous one's
NoStrictDecrease ==
    pc = "spill" /\ iterNo > 0 /\ Len(spilledLRs) >= prevSpillCount

\* fail-safe mode: the pass runs with the emergency budget taken off the
\* register file, and allocation is abandoned when that leaves nothing
FailSafeMode ==
    /\ pc \in {"build", "color", "spill", "done"} =>
          /\ failSafeIter = failSafeRAIteration
          /\ failSafeIter => EmergencyBudget < numRegTotal
    /\ failSafeIter =>
          /\ numReservedGRFsFailSafe = EmergencyBudget
          /\ totalGRFRegCount = numRegTotal - EmergencyBudget
          /\ EmergencyBudget >= numRegTotal => pc = "fatal_failsafe"
    /\ ~failSafeIter => totalGRFRegCount = numRegTotal

\* C8: an iteration that does not strictly decrease the number of spill
\* candidates escalates to fail-safe mode, where the emergency budget (1 GRF
\* when the SIMD size equals the dwords of a GRF, otherwise 2, unless set
\* explicitly) is reserved and coloring runs with that many fewer registers,
\* or allocation is abandoned if that is infeasible; fail-safe mode is never
\* left for another retry in normal mode
C8_EscalatesToFailSafe ==
    /\ []FailSafeMode
    /\ [][/\ NoStrictDecrease => failSafeRAIteration'
          /\ failSafeRAIteration => failSafeRAIteration']_vars

\* after a spill count that did not decrease, a fail-safe pass ran with the
\* GRF reserved by default and colored every live range
C8_Witness ==
    /\ pc = "done"
    /\ iterNo >= 2
    /\ failSafeIter
    /\ reservedAtStart = NOT_FOUND
    /\ totalGRFRegCount = numRegTotal - 1
    /\ lrs # <<>>

\* the declares flagged as spilled
SpilledVars == {d \in DclIds : decls[d + 1].spillFlag}


\* where instruction j of the stream before the rewriting is afterwards
RECURSIVE RewrittenPos(_)
RewrittenPos(j) ==
    IF j = 0 THEN 0
    ELSE RewrittenPos(j - 1)
         + (IF j = 1 THEN 0
            ELSE IF prevInsts[j - 1].dst \in lastSpilled THEN 1 ELSE 0)
         + Cardinality(prevInsts[j].srcs \cap lastSpilled) + 1

\* t is a temporary the last insertSpillCode made: a new declare, with the
\* spill-temporary mark, that exactly two instructions refer to
FreshTemp(t) ==
    /\ t >= NumVars + origTempDclId
    /\ t < NumVars + tempDclId
    /\ t < Len(decls)
    /\ decls[t + 1].spillTmp
    /\ ~decls[t + 1].spillFlag
    /\ RefCount(insts, t) = 2
    /\ RefCount(prevInsts, t) = 0

\* C9: after insertSpillCode every instruction that read a spilled variable
\* reads a fresh temporary loaded from the spill location immediately before
\* it, every instruction that wrote one writes a fresh temporary stored to
\* the spill location immediately after it, and no operand refers to a
\* spilled variable
C9_SpillCodeInserted ==
    iterNo >= 1 =>
        /\ \A k \in 1..Len(insts) : InstOpnds(insts[k]) \cap SpilledVars = {}
        /\ lastSpilled \subseteq SpilledVars
        /\ Len(insts) = RewrittenPos(Len(prevInsts))
              + (IF prevInsts[Len(prevInsts)].dst \in lastSpilled THEN 1 ELSE 0)
        /\ \A j \in 1..Len(prevInsts) :
              LET o == prevInsts[j]
                  p == RewrittenPos(j)
                  n == insts[p]
                  nFill == Cardinality(o.srcs \cap lastSpilled)
              IN /\ n.op = o.op
                 /\ n.slot = o.slot
                 /\ Cardinality(n.srcs) = Cardinality(o.srcs)
                 /\ o.srcs \ lastSpilled \subseteq n.srcs
                 /\ \A s \in o.srcs \cap lastSpilled :
                       \E q \in (p - nFill) .. (p - 1) :
                           /\ insts[q].op = "fill"
                           /\ insts[q].slot = s
                           /\ insts[q].srcs = {}
                           /\ insts[q].dst \in n.srcs
                           /\ FreshTemp(insts[q].dst)
                 /\ o.dst \notin lastSpilled => n.dst = o.dst
                 /\ o.dst \in lastSpilled =>
                       /\ FreshTemp(n.dst)
                       /\ insts[p + 1] = Inst("spill", NoDcl, {n.dst}, o.dst)

\* spill code was inserted for a variable that one instruction read and
\* another wrote
C9_Witness ==
    /\ iterNo >= 1
    /\ \E j, k \in 1..Len(prevInsts) :
          /\ prevInsts[j].dst \in lastSpilled
          /\ prevInsts[k].srcs \cap lastSpilled # {}
          /\ j # k

\* scenario A: a register budget of 2 and, in the kernel as given, three
\* variables of one register each that interfere pairwise (and nothing else
\* that interferes)
ScenarioA ==
    /\ numRegTotal = 2
    /\ \A d \in 1..NumVars : decls[d].numRows = 1
    /\ \E T \in SUBSET Vars :
          /\ Cardinality(T) = 3
          /\ firstEdges = {{a, b} : <<a, b>> \in {e \in T \X T : e[1] < e[2]}}

\* the first pass of scenario A spills exactly one variable
FirstPassSpillsOne ==
    (ScenarioA /\ passes = 1 /\ pc \in {"done", "spill"}) =>
        (pc = "spill" /\ Len(spilledLRs) = 1 /\ Cardinality(MarkedSpilled) = 1)

TempInClique ==
    \E t, a, b \in LRIds(lrs) :
        /\ decls[LR(lrs, t).dcl + 1].spillTmp
        /\ interfereBetween(intf, t, a)
        /\ interfereBetween(intf, t, b)
        /\ interfereBetween(intf, a, b)

UpperTriangular(I) == \A p \in StoredBits(I) : p[1] < p[2] /\ p[2] < I.maxId

\* the (row, column) pairs in which two matrices differ
ChangedBits(I, J) ==
    (StoredBits(I) \ StoredBits(J)) \cup (StoredBits(J) \ StoredBits(I))

\* C12: after any sequence of checkAndSetIntf(v1, v2) calls in any argument
\* order every bit stored in the matrix, dense or sparse, is at (row r,
\* column c) with r < c; each call writes only the row of the smaller id, and
\* a call with v1 = v2 changes nothing
C12_StoredUpperTriangular ==
    /\ [](pc = "live" => UpperTriangular(intf))
    /\ [][lastOp'.op = "set" =>
            /\ \A p \in ChangedBits(intf, intf') :
                  p[1] = Min(lastOp'.v1, lastOp'.v2)
            /\ lastOp'.v1 = lastOp'.v2 => intf' = intf]_vars

\* the dense matrix holds an edge across the word boundary that was set with
\* the larger id first
C12_Witness ==
    /\ pc = "live"
    /\ denseAtInit
    /\ lastOp.op = "set"
    /\ lastOp.v1 = BITS_DWORD
    /\ lastOp.v2 = 1
    /\ <<1, BITS_DWORD>> \in StoredBits(intf)

\* C13: setInterference is idempotent: once checkAndSetIntf(v1, v2) has been
\* called, calling it again with the same or the swapped arguments leaves the
\* whole matrix as it is
C13_SetInterferenceIdempotent ==
    (pc = "live" /\ lastOp.op = "set") =>
        /\ checkAndSetIntf(intf, lastOp.v1, lastOp.v2) = intf
        /\ checkAndSetIntf(intf, lastOp.v2, lastOp.v1) = intf

\* an edge was set in a sparse matrix that holds another edge
C13_Witness ==
    /\ pc = "live"
    /\ ~denseAtInit
    /\ lastOp.op = "set"
    /\ lastOp.v1 < lastOp.v2
    /\ <<lastOp.v1, lastOp.v2>> \in StoredBits(intf)
    /\ Cardinality(StoredBits(intf)) >= 2

\* C14: the query is symmetric although storage is one-sided: for all ids
\* a # b, interfereBetween(a, b) equals interfereBetween(b, a), and both are
\* true from a checkAndSetIntf(a, b) or checkAndSetIntf(b, a) until the edge
\* is cleared (and false otherwise)
C14_QuerySymmetric ==
    pc = "live" =>
        /\ \A a, b \in 0 .. (intf.maxId - 1) :
              a # b =>
                /\ interfereBetween(intf, a, b) = interfereBetween(intf, b, a)
                /\ interfereBetween(intf, a, b) <=> ({a, b} \in edgeSet)
        /\ (lastOp.op = "query" /\ lastOp.v1 # lastOp.v2) =>
              (lastOp.res <=> ({lastOp.v1, lastOp.v2} \in edgeSet))

\* a query with the larger id first found an edge of the dense matrix whose
\* column is in the second word
C14_Witness ==
    /\ pc = "live"
    /\ denseAtInit
    /\ lastOp.op = "query"
    /\ lastOp.v1 = BITS_DWORD
    /\ lastOp.v2 < lastOp.v1
    /\ lastOp.res

\* the object holds the dense words and no sparse row
DenseAllocated(I) ==
    /\ DOMAIN I.matrix = 0 .. (rowSize(I) * I.maxId - 1)
    /\ I.sparseMatrix = <<>>

\* the object holds one sparse row for each id and no dense word
SparseAllocated(I) ==
    /\ I.matrix = <<>>
    /\ DOMAIN I.sparseMatrix = 0 .. (I.maxId - 1)

\* C15: the dense-or-sparse choice is made once and never changes for an
\* Interference object: useDenseMatrix() is at every later set, clear,
\* block-set and query and in the destructor what it was at init(), and no
\* operation touches the representation init() did not allocate
C15_RepresentationFixed ==
    /\ pc \in {"live", "destroyed"} => (useDenseMatrix(intf) = denseAtInit)
    /\ pc = "live" =>
          IF denseAtInit THEN DenseAllocated(intf) ELSE SparseAllocated(intf)
    /\ pc = "destroyed" =>
          /\ intf.matrix = <<>>
          /\ IF denseAtInit THEN intf.sparseMatrix = <<>>
             ELSE SparseAllocated(intf)

\* a dense matrix with an edge in it was destroyed
C15_Witness ==
    /\ pc = "destroyed"
    /\ denseAtInit
    /\ edgeSet # {}
    /\ intf.maxId > BITS_DWORD

\* the sparse rows are allocated and every set and query on them has come out
\* right; the object is in no state other than constructed, selected or live
SparseServes ==
    /\ pc \in {"constructed", "selected", "live"}
    /\ (pc = "live" /\ ~denseAtInit) =>
          /\ SparseAllocated(intf)
          /\ \A a, b \in ProbeIds(intf) :
                a # b => (interfereBetween(intf, a, b) <=> ({a, b} \in edgeSet))
          /\ (lastOp.op = "query" /\ lastOp.v1 # lastOp.v2) =>
                (lastOp.res <=> ({lastOp.v1, lastOp.v2} \in edgeSet))

\* C16 as stated: whenever the number of live ranges is at or above the
\* configured limit, or the dense matrix would need a byte offset that does
\* not fit in 32 bits, init() selects the sparse bit-sets and every later set
\* and query succeeds; the dense matrix is used only when all of its byte
\* offsets are representable in 32 bits
C16_SparseWhenByteOffsetsOverflow ==
    /\ pc \in {"selected", "live"} =>
          /\ (intf.maxId >= intf.denseMatrixLimit \/ ~ByteOffsetsFit(intf.maxId))
                => ~denseAtInit
          /\ denseAtInit => ByteOffsetsFit(intf.maxId)
    /\ SparseServes

\* C16: whenever the number of live ranges is at or above the configured
\* limit, or the dense matrix would have UINT_MAX words or more (a word index
\* that does not fit in 32 bits), init() selects the sparse bit-sets and
\* every later set and query succeeds without an error state; the dense
\* matrix is used only below the limit and with fewer than UINT_MAX words
\* (its byte offsets can exceed 32 bits)
C16_SparseWhenWordIndexesOverflow ==
    /\ pc \in {"selected", "live"} =>
          /\ (intf.maxId >= intf.denseMatrixLimit \/ ~WordIndexesFit(intf.maxId))
                => ~denseAtInit
          /\ denseAtInit =>
                (intf.maxId < intf.denseMatrixLimit /\ WordIndexesFit(intf.maxId))
    /\ SparseServes

\* below the configured limit init() selected the sparse bit-sets for the
\* first size whose dense matrix would have UINT_MAX words or more
C16_Witness ==
    /\ pc = "selected"
    /\ ~denseAtInit
    /\ intf.maxId = FirstWordOverflow
    /\ intf.maxId < intf.denseMatrixLimit

\* the declares live after instruction k of the block: the live-out set after
\* the last one, and before an instruction what is live after it less its
\* destination plus its sources
RECURSIVE LiveAfter(_)
LiveAfter(k) ==
    IF k >= Len(insts) THEN liveOut
    ELSE (LiveAfter(k + 1) \ {insts[k + 1].dst}) \cup insts[k + 1].srcs

\* the pairs of live ranges of which one is defined where the other is live
DefinedWhileLive ==
    {{LRIdOf(lrs, insts[k].dst), LRIdOf(lrs, v)} :
        <<k, v>> \in {p \in (1 .. Len(insts)) \X DclIds :
                        /\ LRIdOf(lrs, insts[p[1]].dst) # NoDcl
                        /\ LRIdOf(lrs, p[2]) # NoDcl
                        /\ p[2] \in LiveAfter(p[1])
                        /\ p[2] # insts[p[1]].dst}}

\* C17: interference of the basic block is built in reverse from its
\* live-out set: at each instruction the destination gets an edge to every
\* variable live at that point except itself, is then removed from the live
\* set, and the sources are added; so every variable live across a
\* definition of another interferes with it, and these are the edges
C17_DestinationInterferesWithLive ==
    pc \in {"color", "spill", "done"} =>
        /\ \A e \in DefinedWhileLive :
              \A a, b \in e : a # b => interfereBetween(intf, a, b)
        /\ EdgesOf(lrs, intf) = DefinedWhileLive
        /\ \A id \in LRIds(lrs) : <<id, id>> \notin StoredBits(intf)

\* in a retry a temporary of the Spill Manager is defined while a variable of
\* the live-out set and a variable read later are live, and interferes with
\* both
C17_Witness ==
    /\ pc = "color"
    /\ iterNo >= 1
    /\ \E k \in 1 .. Len(insts) :
          /\ insts[k].dst # NoDcl
          /\ decls[insts[k].dst + 1].spillTmp
          /\ LRIdOf(lrs, insts[k].dst) # NoDcl
          /\ \E v \in LiveAfter(k) \cap liveOut, w \in LiveAfter(k) \ liveOut :
                /\ v # insts[k].dst
                /\ w # insts[k].dst
                /\ interfereBetween(intf, LRIdOf(lrs, insts[k].dst), LRIdOf(lrs, v))
                /\ interfereBetween(intf, LRIdOf(lrs, insts[k].dst), LRIdOf(lrs, w))

\* C18: interference construction is idempotent: computeInterference run
\* again on the unmodified instruction stream with the same liveness, on the
\* matrix it has built or on a newly initialized one, yields the matrix of
\* the first run bit for bit
C18_ConstructionIdempotent ==
    pc = "color" =>
        /\ computeInterference(intf, lrs, insts, liveOut, varMasks) = intf
        /\ computeInterference(InterferenceInit(Len(lrs), intf.denseMatrixLimit),
                               lrs, insts, liveOut, varMasks) = intf

\* the graph of a rewritten stream was built in the sparse representation
\* and has edges in two rows
C18_Witness ==
    /\ pc = "color"
    /\ iterNo >= 1
    /\ ~useDenseMatrix(intf)
    /\ \E p, q \in StoredBits(intf) : p[1] # q[1]

\* the live intervals of the two live ranges share an instruction
IntervalsOverlap(l, stream, a, b) ==
    LET iv == buildLiveIntervals(l, stream)
    IN /\ iv[a].start <= iv[a].end
       /\ iv[b].start <= iv[b].end
       /\ iv[a].start <= iv[b].end
       /\ iv[b].start <= iv[a].end

\* the mask the declare of a live range was classified with
MaskOfLR(l, id) == varMasks[LR(l, id).dcl + 1]

\* the graph of liveness alone, before augmentation
LivenessOnly ==
    buildInterferenceWithinBB(InterferenceInit(Len(lrs), intf.denseMatrixLimit),
                              lrs, insts, Len(insts), IdsOf(lrs, liveOut))

\* C11: for two live ranges whose live intervals overlap, augmentation adds
\* an edge exactly when their masks are not one default mask of one width:
\* with the same default mask the graph keeps what liveness gave the pair
\* (no edge when liveness gave none), with differing masks or a NonDefault
\* mask the pair has an edge
C11_AugmentationEdgeIffMasksDiffer ==
    pc \in {"color", "done"} =>
        \A a \in LRIds(lrs) : \A b \in LRIds(lrs) :
            (a < b /\ IntervalsOverlap(lrs, insts, a, b)) =>
                IF SameDefaultMask(MaskOfLR(lrs, a), MaskOfLR(lrs, b))
                THEN interfereBetween(intf, a, b)
                        = interfereBetween(LivenessOnly, a, b)
                ELSE interfereBetween(intf, a, b)

\* scenario B: with one register, two live ranges of one default mask whose
\* intervals overlap are both given register 0
C11_Witness ==
    /\ pc = "done"
    /\ numRegTotal = 1
    /\ \E a \in LRIds(lrs) : \E b \in LRIds(lrs) :
          /\ a < b
          /\ IntervalsOverlap(lrs, insts, a, b)
          /\ SameDefaultMask(MaskOfLR(lrs, a), MaskOfLR(lrs, b))
          /\ ~interfereBetween(intf, a, b)
          /\ getPhyReg(LR(lrs, a)) = 0
          /\ getPhyReg(LR(lrs, b)) = 0

\* the graph a rebuild from nothing computes for the live ranges and the
\* instruction stream of this iteration
FromScratch ==
    computeInterference(InterferenceInit(Len(lrs), intf.denseMatrixLimit),
                        lrs, insts, liveOut, varMasks)

\* the graph of this iteration is built and the stream it was built from is
\* still the current one
GraphBuilt == pc \in {"color", "spill", "done", "fatal_verify"}

\* the graph kept differs from the one a rebuild from nothing computes
Mismatch == DclEdges(lrs, intf) # DclEdges(lrs, FromScratch)

\* C19: at level 2 an iteration whose incremental graph differs from the
\* graph computed from nothing ends in the fatal state of the verification,
\* and no step of the allocator leaves that state: neither graph is colored
C19_MismatchAbortsCompilation ==
    /\ [](( /\ level = 2
            /\ GraphBuilt
            /\ Mismatch) => pc = "fatal_verify")
    /\ [][pc # "fatal_verify"]_vars

\* a retry at level 2 in which the Spill Manager left a temporary out: the
\* graphs differ and compilation is aborted
C19_Witness ==
    /\ pc = "fatal_verify"
    /\ level = 2
    /\ iterNo > 0
    /\ Mismatch
    /\ ~allRegistered

\* C20: with incremental recomputation on, in a retry before which every
\* declare the Spill Manager created or removed was registered, the edges
\* obtained by recomputing the dirty live ranges only are the edges a
\* rebuild from nothing gives on the same stream
C20_IncrementalEqualsFromScratch ==
    ( /\ level >= 1
      /\ iterNo > 0
      /\ allRegistered
      /\ GraphBuilt) => (~Mismatch /\ pc # "fatal_verify")

\* a retry with everything registered whose graph has an edge taken over
\* from the iteration before (between two declares of the kernel as given)
\* and an edge computed anew (at a temporary of the Spill Manager)
C20_Witness ==
    /\ level >= 1
    /\ iterNo > 0
    /\ allRegistered
    /\ pc = "color"
    /\ \E e \in DclEdges(lrs, intf) : \A d \in e : d < NumVars
    /\ \E e \in DclEdges(lrs, intf) : \E d \in e : d >= NumVars

\* the call the log holds did not clear the recorded ids
IdsNotCleared(log, rfBefore) ==
    \/ log.op \in {"record", "reuse", "registerNextIter"}
    \/ log.op = "getNextVarId" /\ BitAnd(log.rf, rfBefore) # 0

\* C21: a recorded id is kept by every call that stays on the register file;
\* getNextVarId returns 0 when nothing is recorded (at first, or after the
\* requested file missed the selected one and the record was cleared) and
\* maxVarIdx + 1 otherwise; the id recorded for a new variable is the id
\* of no other declare
C21_IdsKeptAndNewIdsFresh ==
    /\ [](/\ \A d1 \in DOMAIN varIdx : \A d2 \in DOMAIN varIdx :
                d1 # d2 => varIdx[d1] # varIdx[d2]
          /\ idLog.op = "getNextVarId" =>
                /\ idLog.id =
                      IF \/ DOMAIN idLog.before.varIdx = {}
                         \/ BitAnd(idLog.rf, idLog.before.selectedRF) = 0
                      THEN 0 ELSE idLog.before.maxVarIdx + 1
                /\ BitAnd(idLog.rf, idLog.before.selectedRF) = 0
                      => DOMAIN varIdx = {}
          /\ idLog.op = "record" =>
                \A d \in DOMAIN idLog.before.varIdx :
                    idLog.before.varIdx[d] # idLog.id)
    /\ [][IdsNotCleared(idLog', selectedRF) =>
            \A d \in DOMAIN varIdx :
                d \in DOMAIN varIdx' /\ varIdx'[d] = varIdx[d]]_vars

\* a later iteration on the same register file: a declare recorded before
\* has its id and a new one was given maxVarIdx + 1
C21_Witness ==
    /\ idLog.op = "record"
    /\ idLog.id > 0
    /\ idLog.id = idLog.before.maxVarIdx + 1
    /\ selectedRF = G4_GRF
    /\ \E d \in DOMAIN idLog.before.varIdx : varIdx[d] = idLog.before.varIdx[d]

\* the state of a live range in the pass
LRState(l, order, id) ==
    IF isSpilled(LR(l, id)) THEN "Spilled"
    ELSE IF getPhyReg(LR(l, id)) # NoReg THEN "Colored"
    ELSE IF \E k \in 1..Len(order) : order[k] = id THEN "Ordered"
    ELSE "Unprocessed"

LRStep(a, b) ==
    \/ a = b
    \/ a = "Unprocessed" /\ b = "Ordered"
    \/ a = "Ordered" /\ b \in {"Colored", "Spilled"}

InPass == pc \in {"color", "order", "assign"}

\* C22: within a pass a live range moves along Unprocessed -> Ordered ->
\* Colored or Spilled only; the entry assignColors tries is Ordered (none is
\* tried twice), it is Spilled after the step when no color is legal for it,
\* and at the end of the pass every live range is Colored or Spilled and not
\* both
C22_LiveRangeStateMachine ==
    /\ [][InPass =>
            \A id \in LRIds(lrs) :
                LRStep(LRState(lrs, colorOrder, id),
                       LRState(lrs', colorOrder', id))]_vars
    /\ [][(pc = "assign" /\ assignIdx > 0) =>
            LET id == colorOrder[assignIdx]
            IN /\ LRState(lrs, colorOrder, id) = "Ordered"
               /\ LRState(lrs', colorOrder', id) =
                     IF LegalColors(lrs, intf, fbdRegs, totalGRFRegCount,
                                    id) = {}
                     THEN "Spilled" ELSE "Colored"]_vars
    /\ [](pc \in {"done", "spill"} =>
            \A id \in LRIds(lrs) :
                /\ LRState(lrs, colorOrder, id) \in {"Colored", "Spilled"}
                /\ isSpilled(LR(lrs, id)) # (getPhyReg(LR(lrs, id)) # NoReg))

\* a pass that ended with a live range Spilled and another Colored
C22_Witness ==
    /\ pc = "spill"
    /\ Len(colorOrder) = NumVars
    /\ \E a \in LRIds(lrs) : \E b \in LRIds(lrs) :
          /\ LRState(lrs, colorOrder, a) = "Spilled"
          /\ LRState(lrs, colorOrder, b) = "Colored"

\* the live ranges still in the graph, and the ones of degree below the
\* number of colors among them
InGraph(l) == {id \in LRIds(l) : LR(l, id).active}
LowDegree(l, numColor) == {id \in InGraph(l) : LR(l, id).degree < numColor}

\* C24: while a live range of degree below the number of colors is in the
\* graph, the one removed next is such a one of the lowest degree; otherwise
\* the one removed is the cheapest to spill of the constrained ones, so that
\* the constrained live ranges get their colors in descending order of spill
\* cost; when the ordering ends every live range is in colorOrder once
C24_ColorOrdering ==
    /\ [][pc = "order" =>
            LET r == colorOrder'[Len(colorOrder')]
                low == LowDegree(lrs, totalGRFRegCount)
            IN /\ colorOrder' = Append(colorOrder, r)
               /\ r \in InGraph(lrs)
               /\ low # {} =>
                     /\ r \in low
                     /\ \A o \in low : LR(lrs, r).degree <= LR(lrs, o).degree
                     /\ LR(lrs', r).isUnconstrained
               /\ low = {} =>
                     /\ \A o \in InGraph(lrs) : ~CostBelow(LR(lrs, o), LR(lrs, r))
                     /\ ~LR(lrs', r).isUnconstrained]_vars
    /\ [](pc \in {"assign", "done", "spill"} =>
            /\ Len(colorOrder) = Len(lrs)
            /\ \A id \in LRIds(lrs) :
                  Cardinality({k \in 1..Len(colorOrder) : colorOrder[k] = id}) = 1
            /\ \A i \in 1..Len(colorOrder) : \A j \in 1..Len(colorOrder) :
                  ( /\ i < j
                    /\ ~LR(lrs, colorOrder[i]).isUnconstrained
                    /\ ~LR(lrs, colorOrder[j]).isUnconstrained)
                  => ~CostBelow(LR(lrs, colorOrder[j]), LR(lrs, colorOrder[i])))

\* an ordering with an unconstrained live range and two constrained ones of
\* different spill cost
C24_Witness ==
    /\ pc = "assign"
    /\ assignIdx = Len(colorOrder)
    /\ \E i \in 1..Len(colorOrder) : LR(lrs, colorOrder[i]).isUnconstrained
    /\ \E i \in 1..Len(colorOrder) : \E j \in 1..Len(colorOrder) :
          /\ i < j
          /\ ~LR(lrs, colorOrder[i]).isUnconstrained
          /\ ~LR(lrs, colorOrder[j]).isUnconstrained
          /\ CostBelow(LR(lrs, colorOrder[i]), LR(lrs, colorOrder[j]))

\* C25: while live ranges are removed, the weight subtractDegree is called
\* with for a live range still in the graph is at most its degree, whichever
\* neighbour is removed; a degree is never below 0 and no step of the
\* ordering raises one
C25_DegreeNeverUnderflows ==
    /\ [](pc \in {"order", "assign"} =>
            \A id \in LRIds(lrs) :
                /\ LR(lrs, id).degree >= 0
                /\ LR(lrs, id).active =>
                      \A n \in Neighbors(lrs, intf, id) \cap InGraph(lrs) :
                          edgeWeightGRF(LR(lrs, id), LR(lrs, n))
                              <= LR(lrs, id).degree)
    /\ [][pc = "order" =>
            \A id \in LRIds(lrs) :
                LR(lrs', id).degree <= LR(lrs, id).degree]_vars

\* a removal lowered the degree of a neighbour still in the graph to 0
C25_Witness ==
    /\ pc = "order"
    /\ colorOrder # <<>>
    /\ \E id \in InGraph(lrs) :
          /\ LR(lrs, id).degree = 0
          /\ interfereBetween(intf, id, colorOrder[Len(colorOrder)])

\* interval a is not after interval b: by end, then by start
EndThenStart(iv, a, b) ==
    \/ iv[a].end < iv[b].end
    \/ iv[a].end = iv[b].end /\ iv[a].start <= iv[b].start

Ascending(iv, q) ==
    \A i \in 1..Len(q) : \A j \in 1..Len(q) :
        i < j => EndThenStart(iv, q[i], q[j])

\* C23: each queue delivers its intervals in ascending order of end, equal
\* ends in ascending order of start, and an interval delivered is before
\* every interval left in its queue; whichever order the intervals that
\* agree in end and start are taken in, what a queue delivered is sorted by
\* <<end, start>>, and the sweep ends with the edges the intervals and masks
\* determine
C23_QueuesAscendingAndDeterministic ==
    /\ [](pc \in {"sweep", "color"} =>
            /\ Ascending(Intervals, delivered.default)
            /\ Ascending(Intervals, delivered.nonDefault)
            /\ \A k \in 1..Len(delivered.default) : \A x \in defaultMaskQueue :
                  EndThenStart(Intervals, delivered.default[k], x)
            /\ \A k \in 1..Len(delivered.nonDefault) :
                  \A x \in nonDefaultMaskQueue :
                      EndThenStart(Intervals, delivered.nonDefault[k], x))
    /\ [](pc = "color" =>
            EdgesOf(lrs, intf)
              = EdgesOf(lrs, computeInterference(
                                InterferenceInit(Len(lrs), intf.denseMatrixLimit),
                                lrs, insts, liveOut, varMasks)))

\* a sweep in which one queue delivered two intervals of one end and one
\* start, the live range of the higher id first, before a third interval
\* was compared
C23_Witness ==
    /\ pc = "color"
    /\ Len(sortedIntervals) = NumVars
    /\ \E q \in {delivered.default, delivered.nonDefault} :
          /\ Len(q) = 2
          /\ Intervals[q[1]] = Intervals[q[2]]
          /\ q[1] > q[2]

\* neither alignment divides the other
AlignConflict(a, b) == a % b # 0 /\ b % a # 0

\* C26: no call lowers the alignment recorded for a declare; after a
\* setSubRegAlign whose assertions held the record is the larger of what it
\* was and the argument; a setSubRegAlign where neither value divides the
\* other fails an assertion and leaves the record as it was
C26_AlignmentOnlyMoreRestrictive ==
    /\ [][\A d \in AlignDcls :
            getSubRegAlign(varInfo', d) >= getSubRegAlign(varInfo, d)]_vars
    /\ [](alignLog.op = "setSubRegAlign" =>
            LET was == getSubRegAlign(alignLog.before, alignLog.dcl)
                now == getSubRegAlign(varInfo, alignLog.dcl)
            IN /\ ~alignLog.failed => now = Max(was, alignLog.arg)
               /\ AlignConflict(was, alignLog.arg) =>
                     (alignLog.failed /\ now = was))

\* a record of Four_Word kept by a setSubRegAlign with Even_Word
C26_Witness ==
    /\ alignLog.op = "setSubRegAlign"
    /\ ~alignLog.failed
    /\ alignLog.arg = Even_Word
    /\ getSubRegAlign(alignLog.before, alignLog.dcl) = Four_Word
    /\ getSubRegAlign(varInfo, alignLog.dcl) = Four_Word

\* C27: a dense and a sparse object of the same maxId that were given the
\* same calls store the same (row, column) pairs, and every interference
\* query gives the same answer in both
C27_DenseAndSparseInterchangeable ==
    pc = "live" =>
        /\ useDenseMatrix(intf) /\ ~useDenseMatrix(intfTwin)
        /\ intf.maxId = intfTwin.maxId
        /\ StoredPairs(intf) = StoredPairs(intfTwin)
        /\ \A v1, v2 \in 0 .. (intf.maxId - 1) :
              interfereBetween(intf, v1, v2) = interfereBetween(intfTwin, v1, v2)

\* a block call has stored bit 31 of the second word of row 0, next to bits
\* on both sides of the word boundary
C27_Witness ==
    /\ pc = "live"
    /\ lastOp.op = "block"
    /\ <<0, 2 * BITS_DWORD - 1>> \in StoredPairs(intfTwin)
    /\ <<0, BITS_DWORD - 1>> \in StoredPairs(intf)
    /\ <<1, BITS_DWORD>> \in StoredPairs(intf)
    /\ interfereBetween(intfTwin, BITS_DWORD - 1, 0)

\* C28: processNode splits a struct only when its node has no child left;
\* no node is processed twice, a processed node is in the child set of none
\* of its parents and eraseChild never fails its assertion; a node is
\* processed after the structs it was made of; the open calls are never more
\* than the nodes; and when recreateGraph returns every node was processed
\* and none has a child
C28_SplittingBottomUp ==
    /\ ~eraseFailed
    /\ \A r \in splitLog : r.children = {}
    /\ Len(callStack) <= Cardinality(DOMAIN nodes)
    /\ \A n \in DOMAIN nodes :
          /\ processed[n] <= 1
          /\ processed[n] = 1 =>
                /\ \A p \in nodes[n].ParentSTys : n \notin nodes[p].ChildSTys
                /\ \A c \in ChildrenOf(types, n) : processed[c] = 1
    /\ splitPc = "done" =>
          \A n \in DOMAIN nodes : nodes[n].ChildSTys = {} /\ processed[n] = 1

\* recreateGraph has returned on a graph where a struct is the child of two
\* nodes, after two splits and a remade parent
C28_Witness ==
    /\ splitPc = "done"
    /\ \E n \in DOMAIN nodes : Cardinality(nodes[n].ParentSTys) = 2
    /\ Cardinality(splitLog) >= 2
    /\ \E n \in DOMAIN nodes : nodes[n].PreviousNames # {}

\* C29: once StructFilter is constructed, every struct with an element whose
\* array-free type is a banned struct is banned
C29_BannedClosedUnderContainment ==
    splitPc \notin {"none", "module"} =>
        \A STy \in Structs :
            (\E k \in DOMAIN types[STy] :
                getArrayFreeTy(types[STy][k]) \in BannedStructs)
                => STy \in BannedStructs

\* C30: a fill mov (N) a0.i AddrSpillLoc(K).S is removed only if an earlier
\* fill put the words [K*16+S, K*16+S+N) in a0.[i, i+N) and neither a spill
\* to AddrSpillLoc(K) nor another write to those sub-registers came since
C30_RemovedFillsAreRedundant ==
    (fillLog.op = "fill" /\ fillLog.removed) =>
        \A x \in AddrSubRegs :
            (fillLog.i <= x /\ x < fillLog.i + fillLog.N) =>
                fillLog.active[x] = SpillLocWord(fillLog.K, fillLog.S, fillLog.i, x)

====
